---------------------------- MODULE Spec2Model ----------------------------
(***************************************************************************)
(* ya-rand: the ChaCha8 keystream core with its five Machine backends      *)
(* (soft, sse2, avx2, avx512, neon), the buffered SecureRng built on it    *)
(* and the numeric layer of the Generator trait.                           *)
(*                                                                         *)
(* Representation of machine integers.  TLC's integers are 32-bit signed,  *)
(* so a machine word is held as its little-endian sequence of 16-bit       *)
(* limbs: an i32/u32 is <<lo, hi>>, a u64 is <<l0, l1, l2, l3>>.  A        *)
(* transmute between views of the same bytes is then a regrouping of       *)
(* limbs (little-endian targets: x86, x86_64, aarch64).                    *)
(***************************************************************************)
EXTENDS Integers, Sequences, FiniteSets, TLC

LimbBits == 4 * 4
LimbBase == 2 ^ LimbBits
Limb == 0 .. (LimbBase - 1)

(***************************************************************************)
(* MkSeq(n, F) is the sequence <<F(1), ..., F(n)>>, built element by       *)
(* element so that every element is computed once.                         *)
(***************************************************************************)
MkSeq(n, F(_)) ==
    SubSeq([i \in 1 .. n |-> F(i)], 1, n)

(***************************************************************************)
(* Sequencing.  CHOOSE r \in {e(v) : v \in {x}} : TRUE is e(x), with x     *)
(* computed before e: one statement, then the next.                        *)
(***************************************************************************)

(***************************************************************************)
(* Bitwise operations on limbs, by table over bytes.                       *)
(***************************************************************************)
RECURSIVE BitOp(_, _, _, _)
BitOp(op, a, b, n) ==
    IF n = 0 THEN 0
    ELSE (CASE op = "xor" -> ((a % 2) + (b % 2)) % 2
            [] op = "or"  -> IF (a % 2) + (b % 2) > 0 THEN 1 ELSE 0
            [] op = "and" -> (a % 2) * (b % 2))
         + 2 * BitOp(op, a \div 2, b \div 2, n - 1)

XorTab == [a \in 0 .. 255 |-> [b \in 0 .. 255 |-> BitOp("xor", a, b, 8)]]
OrTab == [a \in 0 .. 255 |-> [b \in 0 .. 255 |-> BitOp("or", a, b, 8)]]

Xor16(a, b) == XorTab[a \div 256][b \div 256] * 256 + XorTab[a % 256][b % 256]
Or16(a, b) == OrTab[a \div 256][b \div 256] * 256 + OrTab[a % 256][b % 256]

(***************************************************************************)
(* 32-bit words <<lo, hi>>.                                                *)
(***************************************************************************)
Word(hi, lo) == <<lo, hi>>
ZeroWord == <<0, 0>>
SmallWord(k) == <<k, 0>>

\* i32::wrapping_add / one 32-bit lane of an add_epi32.
wrapping_add32(x, y) ==
    LET s == x[1] + y[1]
    IN  <<s % LimbBase, (x[2] + y[2] + (s \div LimbBase)) % LimbBase>>

xor32(x, y) == <<Xor16(x[1], y[1]), Xor16(x[2], y[2])>>
or32(x, y) == <<Or16(x[1], y[1]), Or16(x[2], y[2])>>

\* Logical shifts of one 32-bit lane, 0 < n < 32.
shl32(x, n) ==
    IF n >= LimbBits
    THEN <<0, (x[1] * 2 ^ (n - LimbBits)) % LimbBase>>
    ELSE <<(x[1] * 2 ^ n) % LimbBase,
           ((x[2] * 2 ^ n) % LimbBase) + (x[1] \div 2 ^ (LimbBits - n))>>

shr32(x, n) ==
    IF n >= LimbBits
    THEN <<x[2] \div 2 ^ (n - LimbBits), 0>>
    ELSE <<(x[1] \div 2 ^ n) + ((x[2] % 2 ^ n) * 2 ^ (LimbBits - n)),
           x[2] \div 2 ^ n>>

\* i32::rotate_left, _mm512_rol_epi32 (one lane).
rotate_left(x, n) ==
    IF n = LimbBits THEN <<x[2], x[1]>>
    ELSE IF n < LimbBits
    THEN <<((x[1] * 2 ^ n) % LimbBase) + (x[2] \div 2 ^ (LimbBits - n)),
           ((x[2] * 2 ^ n) % LimbBase) + (x[1] \div 2 ^ (LimbBits - n))>>
    ELSE <<((x[2] * 2 ^ (n - LimbBits)) % LimbBase) + (x[1] \div 2 ^ (32 - n)),
           ((x[1] * 2 ^ (n - LimbBits)) % LimbBase) + (x[2] \div 2 ^ (32 - n))>>

(***************************************************************************)
(* 64-bit values <<l0, l1, l2, l3>>.                                       *)
(***************************************************************************)
\* Little-endian limbs of a natural number that fits TLC's integers.
RECURSIVE LimbsOf(_, _)
LimbsOf(v, n) ==
    IF n = 0 THEN <<>> ELSE <<v % LimbBase>> \o LimbsOf(v \div LimbBase, n - 1)

\* Sum of two limb sequences of equal length, modulo 2^(16 * length).
RECURSIVE AddLimbs(_, _, _)
AddLimbs(x, y, carry) ==
    IF x = <<>> THEN <<>>
    ELSE LET s == x[1] + y[1] + carry
         IN  <<s % LimbBase>> \o AddLimbs(Tail(x), Tail(y), s \div LimbBase)

\* i64::wrapping_add / u64::wrapping_add / one 64-bit lane of an add_epi64.
wrapping_add64(x, y) == AddLimbs(x, y, 0)

U64(k) == LimbsOf(k, 4)

(***************************************************************************)
(* secure/util.rs: constants, Row, ChaCha.                                 *)
(***************************************************************************)
\* "expand 32-byte k"
ROW_A == <<Word(24944, 30821), Word(13088, 25710),
           Word(31074, 11570), Word(27424, 25972)>>
BUF_LEN == (16 * 4) \div 2
DEPTH == 4
CHACHA_DOUBLE_ROUNDS == 4
CHACHA_SEED_LEN == 3 * 16

Backends == {"soft", "sse2", "avx2", "avx512", "neon"}

\* union Row: the i32x4 view is the stored form <<w0, w1, w2, w3>>.
\* The i64x2 view of the same 16 bytes.
Row_i64x2(row) == <<row[1] \o row[2], row[3] \o row[4]>>
Row_from_i64x2(v) ==
    <<SubSeq(v[1], 1, 2), SubSeq(v[1], 3, 4), SubSeq(v[2], 1, 2), SubSeq(v[2], 3, 4)>>
\* The i8x16 view: 16 bytes, little-endian.
BytesOfLimbs(ls) ==
    MkSeq(2 * Len(ls), LAMBDA i :
        IF i % 2 = 1 THEN ls[(i + 1) \div 2] % 256 ELSE ls[i \div 2] \div 256)
LimbsOfBytes(bs) ==
    MkSeq(Len(bs) \div 2, LAMBDA i : bs[2 * i - 1] + 256 * bs[2 * i])
\* The elements of equally long sequences, one sequence after the other.
Flatten(ss) ==
    IF ss = <<>> THEN <<>>
    ELSE LET n == Len(ss[1])
         IN  MkSeq(Len(ss) * n, LAMBDA i : ss[((i - 1) \div n) + 1][((i - 1) % n) + 1])
Row_i8x16(row) == BytesOfLimbs(Flatten(row))
Row_from_i8x16(bs) ==
    LET ls == LimbsOfBytes(bs) IN MkSeq(4, LAMBDA i : <<ls[2 * i - 1], ls[2 * i]>>)

ZeroRow == <<ZeroWord, ZeroWord, ZeroWord, ZeroWord>>

\* ChaCha::default(): MaybeUninit::zeroed().
ChaCha_default == [row_b |-> ZeroRow, row_c |-> ZeroRow, row_d |-> ZeroRow]

\* From<[u8; CHACHA_SEED_LEN]> that clears the eight counter bytes.
ChaCha_from_counter_cleared(value) ==
    [row_b |-> Row_from_i8x16(SubSeq(value, 1, 16)),
     row_c |-> Row_from_i8x16(SubSeq(value, 17, 32)),
     row_d |-> Row_from_i8x16(<<0, 0, 0, 0, 0, 0, 0, 0>> \o SubSeq(value, 41, 48))]

\* impl From<[u8; CHACHA_SEED_LEN]> for ChaCha: transmute of 48 bytes.
ChaCha_from(value) ==
    [row_b |-> Row_from_i8x16(SubSeq(value, 1, 16)),
     row_c |-> Row_from_i8x16(SubSeq(value, 17, 32)),
     row_d |-> Row_from_i8x16(SubSeq(value, 33, 48))]

\* The stored 64-bit counter: row_d.i64x2[0].
Counter(state) == Row_i64x2(state.row_d)[1]

\* transmute of a sequence of 32-bit words to [u64; n/2].
WordsToU64s(ws) == MkSeq(Len(ws) \div 2, LAMBDA i : ws[2 * i - 1] \o ws[2 * i])


(***************************************************************************)
(* secure/soft.rs: Matrix { state: [[i32; 16]; DEPTH] }.                   *)
(* A soft Matrix is a sequence of DEPTH lanes of 16 words; the source's    *)
(* 0-based index i is position i + 1.                                      *)
(***************************************************************************)
\* row_d with `incr` added to u64x2[0].
RowAddCounter64(row, incr) ==
    LET v == Row_i64x2(row)
    IN  Row_from_i64x2(<<wrapping_add64(v[1], U64(incr)), v[2]>>)

soft_new(state) ==
    LET chacha == MkSeq(DEPTH, LAMBDA k :
                     <<ROW_A, state.row_b, state.row_c,
                       IF k = 1 THEN state.row_d
                       ELSE RowAddCounter64(state.row_d, k - 1)>>)
    IN  MkSeq(DEPTH, LAMBDA k : Flatten(chacha[k]))

soft_add(self, rhs) ==
    MkSeq(Len(self), LAMBDA i :
        MkSeq(Len(self[i]), LAMBDA j : wrapping_add32(self[i][j], rhs[i][j])))

soft_quarter_round_lane(matrix, a, b, c, d) ==
    LET a1 == wrapping_add32(matrix[a + 1], matrix[b + 1])
        d1 == rotate_left(xor32(matrix[d + 1], a1), 16)
        c1 == wrapping_add32(matrix[c + 1], d1)
        b1 == rotate_left(xor32(matrix[b + 1], c1), 12)
        a2 == wrapping_add32(a1, b1)
        d2 == rotate_left(xor32(d1, a2), 8)
        c2 == wrapping_add32(c1, d2)
        b2 == rotate_left(xor32(b1, c2), 7)
    IN  [matrix EXCEPT ![a + 1] = a2, ![b + 1] = b2, ![c + 1] = c2, ![d + 1] = d2]

soft_quarter_round(self, a, b, c, d) ==
    MkSeq(Len(self), LAMBDA i : soft_quarter_round_lane(self[i], a, b, c, d))

soft_double_round(self) ==
    CHOOSE r \in
        {LET \* Diagonal (odd) rounds
             d0 == soft_quarter_round(c3, 0, 5, 10, 15)
             d1 == soft_quarter_round(d0, 1, 6, 11, 12)
             d2 == soft_quarter_round(d1, 2, 7, 8, 13)
         IN  soft_quarter_round(d2, 3, 4, 9, 14) :
         c3 \in {LET \* Column (even) rounds
                     c0 == soft_quarter_round(self, 0, 4, 8, 12)
                     c1 == soft_quarter_round(c0, 1, 5, 9, 13)
                     c2 == soft_quarter_round(c1, 2, 6, 10, 14)
                 IN  soft_quarter_round(c2, 3, 7, 11, 15)}} : TRUE

soft_fill_block(self) == WordsToU64s(Flatten(self))

(***************************************************************************)
(* Vector intrinsics.  A vector is the sequence of its 32-bit elements,    *)
(* element 0 (the lowest address) first: 4 for __m128i / uint32x4_t, 8 for *)
(* __m256i, 16 for __m512i.                                                *)
(***************************************************************************)
\* _mm_add_epi32, _mm256_add_epi32, _mm512_add_epi32, vaddq_u32.
add_epi32(a, b) == MkSeq(Len(a), LAMBDA i : wrapping_add32(a[i], b[i]))

\* _mm_add_epi64, _mm256_add_epi64: 64-bit lanes, the carry crosses words.
add_epi64(a, b) ==
    LET sum(j) == wrapping_add64(a[2 * j - 1] \o a[2 * j], b[2 * j - 1] \o b[2 * j])
    IN  MkSeq(Len(a), LAMBDA i :
            IF i % 2 = 1 THEN SubSeq(sum((i + 1) \div 2), 1, 2)
            ELSE SubSeq(sum(i \div 2), 3, 4))

\* _mm_xor_si128, _mm256_xor_si256, _mm512_xor_si512, veorq_u32.
xor_si(a, b) == MkSeq(Len(a), LAMBDA i : xor32(a[i], b[i]))
\* _mm_or_si128, _mm256_or_si256, vorrq_u32.
or_si(a, b) == MkSeq(Len(a), LAMBDA i : or32(a[i], b[i]))
\* _mm_slli_epi32, _mm256_slli_epi32, vshlq_n_u32.
slli_epi32(a, n) == MkSeq(Len(a), LAMBDA i : shl32(a[i], n))
\* _mm_srli_epi32, _mm256_srli_epi32, vshrq_n_u32.
srli_epi32(a, n) == MkSeq(Len(a), LAMBDA i : shr32(a[i], n))
\* _mm512_rol_epi32.
rol_epi32(a, n) == MkSeq(Len(a), LAMBDA i : rotate_left(a[i], n))

\* macro rotate_left_epi32 (sse2.rs, avx2.rs, neon.rs).
rotate_left_epi32(value, LEFT_SHIFT) ==
    or_si(slli_epi32(value, LEFT_SHIFT), srli_epi32(value, 32 - LEFT_SHIFT))

\* The immediate 0b_zz_yy_xx_ww.
MM_SHUFFLE(z, y, x, w) == z * 64 + y * 16 + x * 4 + w

\* _mm_shuffle_epi32, _mm256_shuffle_epi32, _mm512_shuffle_epi32: within
\* each 128-bit lane, element i becomes element ((imm >> 2i) & 3).
shuffle_epi32(a, imm) ==
    MkSeq(Len(a), LAMBDA p :
        LET lane == (p - 1) \div 4
            i == (p - 1) % 4
        IN  a[4 * lane + ((imm \div (4 ^ i)) % 4) + 1])

\* vextq_u32(a, b, n): elements n..3 of a, then elements 0..n-1 of b.
vextq_u32(a, b, n) == SubSeq(a, n + 1, 4) \o SubSeq(b, 1, n)

\* A vector from 64-bit elements given lowest first.
VecOfU64s(es) == Flatten(MkSeq(Len(es), LAMBDA i : <<SubSeq(es[i], 1, 2), SubSeq(es[i], 3, 4)>>))
\* _mm_set_epi64x(e1, e0)
mm_set_epi64x(e1, e0) == VecOfU64s(<<U64(e0), U64(e1)>>)
\* _mm256_set_epi64x(e3, e2, e1, e0)
mm256_set_epi64x(e3, e2, e1, e0) == VecOfU64s(<<U64(e0), U64(e1), U64(e2), U64(e3)>>)
\* _mm512_set_epi64(e7, ..., e0)
mm512_set_epi64(e7, e6, e5, e4, e3, e2, e1, e0) ==
    VecOfU64s(<<U64(e0), U64(e1), U64(e2), U64(e3), U64(e4), U64(e5), U64(e6), U64(e7)>>)
\* vreinterpretq_u32_u64(vcombine_u64(vcreate_u64(low), vcreate_u64(high)))
vcombine_u64(low, high) == VecOfU64s(<<U64(low), U64(high)>>)

\* _mm256_broadcastsi128_si256, _mm512_broadcast_i32x4.
broadcast128(row, times) == Flatten(MkSeq(times, LAMBDA i : row))
\* _mm256_extracti128_si256(v, i), _mm512_extracti32x4_epi32(v, i).
extracti128(v, i) == SubSeq(v, 4 * i + 1, 4 * i + 4)

(***************************************************************************)
(* secure/sse2.rs: Matrix { state: [[__m128i; 4]; DEPTH] }.                *)
(***************************************************************************)
sse2_new(state) ==
    LET lane(k) ==
          <<ROW_A, state.row_b, state.row_c,
            IF k = 0 THEN state.row_d
            ELSE add_epi64(state.row_d, mm_set_epi64x(0, k))>>
    IN  <<lane(0), lane(1), lane(2), lane(3)>>

sse2_add(self, rhs) ==
    MkSeq(Len(self), LAMBDA i :
        MkSeq(Len(self[i]), LAMBDA j : add_epi32(self[i][j], rhs[i][j])))

sse2_quarter_round(self) ==
    MkSeq(Len(self), LAMBDA i :
        LET a0 == self[i][1]
            b0 == self[i][2]
            c0 == self[i][3]
            d0 == self[i][4]
            a1 == add_epi32(a0, b0)
            d1 == rotate_left_epi32(xor_si(d0, a1), 16)
            c1 == add_epi32(c0, d1)
            b1 == rotate_left_epi32(xor_si(b0, c1), 12)
            a2 == add_epi32(a1, b1)
            d2 == rotate_left_epi32(xor_si(d1, a2), 8)
            c2 == add_epi32(c1, d2)
            b2 == rotate_left_epi32(xor_si(b1, c2), 7)
        IN  <<a2, b2, c2, d2>>)

sse2_make_diagonal(self) ==
    MkSeq(Len(self), LAMBDA i :
        <<shuffle_epi32(self[i][1], MM_SHUFFLE(2, 1, 0, 3)),
          self[i][2],
          shuffle_epi32(self[i][3], MM_SHUFFLE(0, 3, 2, 1)),
          shuffle_epi32(self[i][4], MM_SHUFFLE(1, 0, 3, 2))>>)

\* unmake_diagonal that shuffles as make_diagonal does.
sse2_unmake_diagonal_as_make(self) ==
    MkSeq(Len(self), LAMBDA i :
        <<shuffle_epi32(self[i][1], MM_SHUFFLE(2, 1, 0, 3)),
          self[i][2],
          shuffle_epi32(self[i][3], MM_SHUFFLE(0, 3, 2, 1)),
          shuffle_epi32(self[i][4], MM_SHUFFLE(1, 0, 3, 2))>>)

sse2_unmake_diagonal(self) ==
    MkSeq(Len(self), LAMBDA i :
        <<shuffle_epi32(self[i][1], MM_SHUFFLE(0, 3, 2, 1)),
          self[i][2],
          shuffle_epi32(self[i][3], MM_SHUFFLE(2, 1, 0, 3)),
          shuffle_epi32(self[i][4], MM_SHUFFLE(1, 0, 3, 2))>>)

sse2_double_round(self) ==
    CHOOSE r \in
        {sse2_unmake_diagonal(sse2_quarter_round(diagonal)) :
         diagonal \in {sse2_make_diagonal(sse2_quarter_round(self))}} : TRUE

\* transmute([[__m128i; 4]; DEPTH]) -> [u64; BUF_LEN]
sse2_fill_block(self) == WordsToU64s(Flatten(Flatten(self)))

(***************************************************************************)
(* secure/avx2.rs: Matrix { state: [[__m256i; 4]; LOCAL_DEPTH] }.          *)
(***************************************************************************)
LOCAL_DEPTH == DEPTH \div 2

avx2_new(state) ==
    LET row_a == broadcast128(ROW_A, 2)
        row_b == broadcast128(state.row_b, 2)
        row_c == broadcast128(state.row_c, 2)
        row_d == broadcast128(state.row_d, 2)
    IN  <<<<row_a, row_b, row_c, add_epi64(row_d, mm256_set_epi64x(0, 0, 0, 1))>>,
          <<row_a, row_b, row_c, add_epi64(row_d, mm256_set_epi64x(0, 2, 0, 3))>>>>

avx2_add(self, rhs) ==
    MkSeq(Len(self), LAMBDA i :
        MkSeq(Len(self[i]), LAMBDA j : add_epi32(self[i][j], rhs[i][j])))

avx2_quarter_round(self) ==
    MkSeq(Len(self), LAMBDA i :
        LET a0 == self[i][1]
            b0 == self[i][2]
            c0 == self[i][3]
            d0 == self[i][4]
            a1 == add_epi32(a0, b0)
            d1 == rotate_left_epi32(xor_si(d0, a1), 16)
            c1 == add_epi32(c0, d1)
            b1 == rotate_left_epi32(xor_si(b0, c1), 12)
            a2 == add_epi32(a1, b1)
            d2 == rotate_left_epi32(xor_si(d1, a2), 8)
            c2 == add_epi32(c1, d2)
            b2 == rotate_left_epi32(xor_si(b1, c2), 7)
        IN  <<a2, b2, c2, d2>>)

avx2_make_diagonal(self) ==
    MkSeq(Len(self), LAMBDA i :
        <<shuffle_epi32(self[i][1], MM_SHUFFLE(2, 1, 0, 3)),
          self[i][2],
          shuffle_epi32(self[i][3], MM_SHUFFLE(0, 3, 2, 1)),
          shuffle_epi32(self[i][4], MM_SHUFFLE(1, 0, 3, 2))>>)

avx2_unmake_diagonal(self) ==
    MkSeq(Len(self), LAMBDA i :
        <<shuffle_epi32(self[i][1], MM_SHUFFLE(0, 3, 2, 1)),
          self[i][2],
          shuffle_epi32(self[i][3], MM_SHUFFLE(2, 1, 0, 3)),
          shuffle_epi32(self[i][4], MM_SHUFFLE(1, 0, 3, 2))>>)

avx2_double_round(self) ==
    CHOOSE r \in
        {avx2_unmake_diagonal(avx2_quarter_round(diagonal)) :
         diagonal \in {avx2_make_diagonal(avx2_quarter_round(self))}} : TRUE

avx2_fill_block(self) ==
    WordsToU64s(Flatten(Flatten(
        <<MkSeq(4, LAMBDA j : extracti128(self[1][j], 1)),
          MkSeq(4, LAMBDA j : extracti128(self[1][j], 0)),
          MkSeq(4, LAMBDA j : extracti128(self[2][j], 1)),
          MkSeq(4, LAMBDA j : extracti128(self[2][j], 0))>>)))

(***************************************************************************)
(* secure/avx512.rs: Matrix { state: [__m512i; 4] }.                       *)
(***************************************************************************)
avx512_new(state) ==
    <<broadcast128(ROW_A, 4),
      broadcast128(state.row_b, 4),
      broadcast128(state.row_c, 4),
      add_epi32(broadcast128(state.row_d, 4),
                mm512_set_epi64(0, 0, 0, 1, 0, 2, 0, 3))>>

avx512_add(self, rhs) == MkSeq(Len(self), LAMBDA i : add_epi32(self[i], rhs[i]))

avx512_quarter_round(self) ==
    LET a1 == add_epi32(self[1], self[2])
        d1 == rol_epi32(xor_si(self[4], a1), 16)
        c1 == add_epi32(self[3], d1)
        b1 == rol_epi32(xor_si(self[2], c1), 12)
        a2 == add_epi32(a1, b1)
        d2 == rol_epi32(xor_si(d1, a2), 8)
        c2 == add_epi32(c1, d2)
        b2 == rol_epi32(xor_si(b1, c2), 7)
    IN  <<a2, b2, c2, d2>>

avx512_make_diagonal(self) ==
    <<shuffle_epi32(self[1], MM_SHUFFLE(2, 1, 0, 3)),
      self[2],
      shuffle_epi32(self[3], MM_SHUFFLE(0, 3, 2, 1)),
      shuffle_epi32(self[4], MM_SHUFFLE(1, 0, 3, 2))>>

avx512_unmake_diagonal(self) ==
    <<shuffle_epi32(self[1], MM_SHUFFLE(0, 3, 2, 1)),
      self[2],
      shuffle_epi32(self[3], MM_SHUFFLE(2, 1, 0, 3)),
      shuffle_epi32(self[4], MM_SHUFFLE(1, 0, 3, 2))>>

avx512_double_round(self) ==
    CHOOSE r \in
        {avx512_unmake_diagonal(avx512_quarter_round(diagonal)) :
         diagonal \in {avx512_make_diagonal(avx512_quarter_round(self))}} : TRUE

avx512_fill_block(self) ==
    WordsToU64s(Flatten(Flatten(
        <<MkSeq(4, LAMBDA j : extracti128(self[j], 3)),
          MkSeq(4, LAMBDA j : extracti128(self[j], 2)),
          MkSeq(4, LAMBDA j : extracti128(self[j], 1)),
          MkSeq(4, LAMBDA j : extracti128(self[j], 0))>>)))

(***************************************************************************)
(* secure/neon.rs: Matrix { state: [[uint32x4_t; 4]; DEPTH] }.             *)
(***************************************************************************)
neon_new(state) ==
    LET lane(k) ==
          <<ROW_A, state.row_b, state.row_c,
            IF k = 0 THEN state.row_d
            ELSE add_epi32(state.row_d, vcombine_u64(0, k))>>
    IN  <<lane(0), lane(1), lane(2), lane(3)>>

neon_add(self, rhs) ==
    MkSeq(Len(self), LAMBDA i :
        MkSeq(Len(self[i]), LAMBDA j : add_epi32(self[i][j], rhs[i][j])))

neon_quarter_round(self) ==
    MkSeq(Len(self), LAMBDA i :
        LET a0 == self[i][1]
            b0 == self[i][2]
            c0 == self[i][3]
            d0 == self[i][4]
            a1 == add_epi32(a0, b0)
            d1 == rotate_left_epi32(xor_si(d0, a1), 16)
            c1 == add_epi32(c0, d1)
            b1 == rotate_left_epi32(xor_si(b0, c1), 12)
            a2 == add_epi32(a1, b1)
            d2 == rotate_left_epi32(xor_si(d1, a2), 8)
            c2 == add_epi32(c1, d2)
            b2 == rotate_left_epi32(xor_si(b1, c2), 7)
        IN  <<a2, b2, c2, d2>>)

neon_make_diagonal(self) ==
    MkSeq(Len(self), LAMBDA i :
        <<vextq_u32(self[i][1], self[i][1], 3),
          self[i][2],
          vextq_u32(self[i][3], self[i][3], 1),
          vextq_u32(self[i][4], self[i][4], 2)>>)

neon_unmake_diagonal(self) ==
    MkSeq(Len(self), LAMBDA i :
        <<vextq_u32(self[i][1], self[i][1], 1),
          self[i][2],
          vextq_u32(self[i][3], self[i][3], 3),
          vextq_u32(self[i][4], self[i][4], 2)>>)

neon_double_round(self) ==
    CHOOSE r \in
        {neon_unmake_diagonal(neon_quarter_round(diagonal)) :
         diagonal \in {neon_make_diagonal(neon_quarter_round(self))}} : TRUE

neon_fill_block(self) == WordsToU64s(Flatten(Flatten(self)))

(***************************************************************************)
(* secure/sse.rs: SSE { state: [__m128i; 16] }, an earlier backend that    *)
(* mod.rs does not name: vector w holds word w of the four lanes.          *)
(***************************************************************************)
\* _mm_set1_epi32(a)
mm_set1_epi32(a) == <<a, a, a, a>>
\* _mm_set_epi32(e3, e2, e1, e0)
mm_set_epi32(e3, e2, e1, e0) == <<e0, e1, e2, e3>>

\* SSE::new: the closure increment_counter, then the 16 vectors.
sse_new(state) ==
    LET p1 == RowAddCounter64(state.row_d, 0)
        p2 == RowAddCounter64(state.row_d, 1)
        p3 == RowAddCounter64(state.row_d, 2)
        p4 == RowAddCounter64(state.row_d, 3)
    IN  MkSeq(4, LAMBDA i : mm_set1_epi32(ROW_A[i]))
        \o MkSeq(4, LAMBDA i : mm_set1_epi32(state.row_b[i]))
        \o MkSeq(4, LAMBDA i : mm_set1_epi32(state.row_c[i]))
        \o MkSeq(4, LAMBDA i : mm_set_epi32(p1[i], p2[i], p3[i], p4[i]))

\* SSE::flatten: transmute([__m128i; 16]) -> [u64; 32]
sse_flatten(self) == WordsToU64s(Flatten(self))

(***************************************************************************)
(* secure/util.rs: trait Machine and ChaCha::block.                        *)
(***************************************************************************)
Machine_new(M, state) ==
    CASE M = "soft" -> soft_new(state)
      [] M = "sse2" -> sse2_new(state)
      [] M = "avx2" -> avx2_new(state)
      [] M = "avx512" -> avx512_new(state)
      [] M = "neon" -> neon_new(state)
      [] M = "sse" -> sse_new(state)

Machine_double_round(M, self) ==
    CASE M = "soft" -> soft_double_round(self)
      [] M = "sse2" -> sse2_double_round(self)
      [] M = "avx2" -> avx2_double_round(self)
      [] M = "avx512" -> avx512_double_round(self)
      [] M = "neon" -> neon_double_round(self)

Machine_add(M, self, rhs) ==
    CASE M = "soft" -> soft_add(self, rhs)
      [] M = "sse2" -> sse2_add(self, rhs)
      [] M = "avx2" -> avx2_add(self, rhs)
      [] M = "avx512" -> avx512_add(self, rhs)
      [] M = "neon" -> neon_add(self, rhs)

Machine_fill_block(M, self) ==
    CASE M = "soft" -> soft_fill_block(self)
      [] M = "sse2" -> sse2_fill_block(self)
      [] M = "avx2" -> avx2_fill_block(self)
      [] M = "avx512" -> avx512_fill_block(self)
      [] M = "neon" -> neon_fill_block(self)
      [] M = "sse" -> sse_flatten(self)

Machine_make_diagonal(M, self) ==
    CASE M = "sse2" -> sse2_make_diagonal(self)
      [] M = "avx2" -> avx2_make_diagonal(self)
      [] M = "avx512" -> avx512_make_diagonal(self)
      [] M = "neon" -> neon_make_diagonal(self)

Machine_unmake_diagonal(M, self) ==
    CASE M = "sse2" -> sse2_unmake_diagonal(self)
      [] M = "avx2" -> avx2_unmake_diagonal(self)
      [] M = "avx512" -> avx512_unmake_diagonal(self)
      [] M = "neon" -> neon_unmake_diagonal(self)

\* The lanes a Matrix holds, each as its 16 words in row order A, B, C, D,
\* in the order the struct stores them: a lane is a matrix of the soft
\* backend, one [__m128i; 4] / [uint32x4_t; 4], or the same 128-bit part of
\* the four rows of __m256i / __m512i, the lowest part first; in SSE it
\* is the same element of the 16 vectors.
Matrix_lanes(M, self) ==
    CASE M = "soft" -> self
      [] M \in {"sse2", "neon"} -> MkSeq(DEPTH, LAMBDA k : Flatten(self[k]))
      [] M = "avx2" ->
            MkSeq(DEPTH, LAMBDA k :
                Flatten(MkSeq(4, LAMBDA j :
                    extracti128(self[((k - 1) \div 2) + 1][j], (k - 1) % 2))))
      [] M = "avx512" ->
            MkSeq(DEPTH, LAMBDA k :
                Flatten(MkSeq(4, LAMBDA j : extracti128(self[j], k - 1))))
      [] M = "sse" -> MkSeq(DEPTH, LAMBDA k : MkSeq(16, LAMBDA w : self[w][k]))

\* The counter offset new gives the p-th lane of the Matrix: what it adds
\* to row D, read off the Matrix of the all-zero state.
LaneOffset(M, p) ==
    LET row_d == SubSeq(Matrix_lanes(M, Machine_new(M, ChaCha_default))[p],
                        13, 16)
    IN  row_d[1][1] + row_d[2][1] + row_d[3][1] + row_d[4][1]

\* The lane that new gives the counter offset k.
LaneOfOffset(M, k) == CHOOSE p \in 1..DEPTH : LaneOffset(M, p) = k

\* for _ in 0..CHACHA_DOUBLE_ROUNDS { state.double_round(); }
RECURSIVE DoubleRounds(_, _, _)
DoubleRounds(M, state, n) ==
    IF n = 0 THEN state
    ELSE CHOOSE r \in {DoubleRounds(M, s, n - 1) :
                         s \in {Machine_double_round(M, state)}} : TRUE

\* IncrementCounter with the addition confined to the low 32-bit word of the
\* counter: the carry into the high word is lost.
IncrementCounter_low_word_only(self) ==
    [self EXCEPT !.row_d[1] = wrapping_add32(self.row_d[1], SmallWord(DEPTH))]

\* IncrementCounter with row D added to as one 128-bit integer: a counter
\* that wraps carries into the nonce.
IncrementCounter_carry_into_nonce(self) ==
    [self EXCEPT !.row_d =
        LET sum == AddLimbs(Flatten(self.row_d), LimbsOf(DEPTH, 8), 0)
        IN  MkSeq(4, LAMBDA i : <<sum[2 * i - 1], sum[2 * i]>>)]

\* self.row_d.i64x2[0] = self.row_d.i64x2[0].wrapping_add(DEPTH as i64)
IncrementCounter(self) ==
    [self EXCEPT !.row_d = RowAddCounter64(self.row_d, DEPTH)]

\* The buffer block() fills: computed from the state held before the call.
ChaCha_block_buf(M, self) ==
    CHOOSE buf \in
        {Machine_fill_block(M, Machine_add(
             M, DoubleRounds(M, old_state, CHACHA_DOUBLE_ROUNDS), old_state)) :
         old_state \in {Machine_new(M, self)}} : TRUE

\* ChaCha::block(&mut self, buf): the new stored state and the filled buf.
ChaCha_block(M, self) ==
    [state |-> IncrementCounter(self), buf |-> ChaCha_block_buf(M, self)]

(***************************************************************************)
(* secure/util.rs, mod test: the published ChaCha8 keystream blocks.       *)
(***************************************************************************)

all_bytes_zeroed_KEYSTREAM_BLOCK_0 ==
    <<62, 0, 239, 47, 137, 95, 64, 214, 127, 91, 184, 232, 31, 9, 165, 161,
      44, 132, 14, 195, 206, 154, 127, 59, 24, 27, 225, 136, 239, 113, 26, 30,
      152, 76, 225, 114, 185, 33, 111, 65, 159, 68, 83, 103, 69, 109, 86, 25,
      49, 74, 66, 163, 218, 134, 176, 1, 56, 123, 253, 184, 14, 12, 254, 66>>

all_bytes_zeroed_KEYSTREAM_BLOCK_1 ==
    <<210, 174, 250, 13, 234, 165, 193, 81, 191, 10, 219, 108, 1, 242, 165, 173,
      192, 253, 88, 18, 89, 249, 162, 170, 220, 242, 15, 143, 213, 102, 162, 107,
      80, 50, 236, 56, 187, 197, 218, 152, 238, 12, 111, 86, 139, 135, 42, 101,
      160, 138, 191, 37, 29, 235, 33, 187, 75, 86, 229, 216, 130, 30, 104, 170>>

first_key_byte_is_1_KEYSTREAM_BLOCK_0 ==
    <<207, 94, 233, 160, 73, 74, 169, 97, 62, 5, 213, 237, 114, 91, 128, 75,
      18, 244, 164, 101, 238, 99, 90, 204, 58, 49, 29, 232, 116, 4, 137, 234,
      40, 157, 4, 244, 60, 117, 24, 219, 86, 235, 68, 51, 228, 152, 161, 35,
      140, 216, 70, 77, 55, 99, 221, 187, 146, 34, 238, 59, 216, 250, 227, 200>>

first_key_byte_is_1_KEYSTREAM_BLOCK_1 ==
    <<180, 53, 90, 125, 147, 221, 136, 103, 8, 158, 230, 67, 85, 139, 149, 117,
      78, 250, 43, 209, 168, 161, 226, 215, 91, 205, 179, 32, 21, 84, 38, 56,
      41, 25, 65, 254, 180, 153, 101, 88, 124, 79, 223, 226, 25, 207, 14, 193,
      50, 166, 205, 77, 192, 103, 57, 46, 103, 152, 47, 229, 50, 120, 192, 180>>

first_nonce_byte_is_1_KEYSTREAM_BLOCK_0 ==
    <<43, 143, 75, 179, 121, 131, 6, 202, 81, 48, 212, 124, 79, 141, 78, 209,
      58, 160, 237, 204, 193, 190, 105, 66, 9, 15, 174, 236, 160, 215, 89, 155,
      127, 240, 254, 97, 107, 178, 90, 160, 21, 58, 214, 253, 200, 139, 149, 73,
      3, 194, 36, 38, 212, 120, 185, 123, 34, 184, 249, 177, 219, 0, 207, 6>>

first_nonce_byte_is_1_KEYSTREAM_BLOCK_1 ==
    <<71, 11, 223, 251, 196, 136, 168, 183, 199, 1, 235, 244, 6, 29, 117, 197,
      150, 145, 134, 73, 124, 149, 54, 120, 9, 175, 168, 11, 216, 67, 176, 64,
      167, 154, 188, 110, 115, 169, 23, 87, 241, 219, 115, 200, 234, 207, 165, 67,
      179, 143, 40, 157, 6, 90, 178, 243, 3, 45, 55, 123, 140, 55, 254, 70>>

all_bytes_set_KEYSTREAM_BLOCK_0 ==
    <<225, 99, 187, 248, 201, 167, 57, 209, 137, 37, 238, 131, 98, 218, 210, 205,
      201, 115, 223, 5, 34, 90, 251, 42, 162, 99, 150, 242, 169, 132, 154, 74,
      68, 94, 5, 71, 211, 28, 22, 35, 197, 55, 223, 75, 168, 92, 112, 169,
      136, 74, 53, 188, 191, 61, 250, 176, 119, 233, 139, 15, 104, 19, 95, 84>>

all_bytes_set_KEYSTREAM_BLOCK_1 ==
    <<129, 212, 147, 63, 139, 50, 42, 192, 205, 118, 44, 39, 35, 92, 226, 179,
      21, 52, 224, 36, 74, 154, 47, 31, 213, 233, 68, 152, 212, 127, 241, 8,
      121, 12, 0, 156, 249, 225, 163, 72, 3, 42, 118, 148, 203, 40, 2, 76,
      217, 109, 52, 152, 54, 30, 219, 23, 133, 175, 117, 45, 24, 122, 181, 75>>

(***************************************************************************)
(* secure/util.rs, mod test: chacha_test<M> and its seed states.           *)
(***************************************************************************)
\* i64 !0
NOT_BITS == <<LimbBase - 1, LimbBase - 1, LimbBase - 1, LimbBase - 1>>

\* row.i8x16[i] = v
Row_set_i8(row, i, v) == Row_from_i8x16([Row_i8x16(row) EXCEPT ![i + 1] = v])

TestState_all_bytes_zeroed == ChaCha_default
TestState_first_key_byte_is_1 ==
    [ChaCha_default EXCEPT !.row_b = Row_set_i8(@, 0, 1)]
TestState_first_nonce_byte_is_1 ==
    [ChaCha_default EXCEPT !.row_d = Row_set_i8(@, 8, 1)]
TestState_all_bytes_set ==
    [row_b |-> Row_from_i64x2(<<NOT_BITS, NOT_BITS>>),
     row_c |-> Row_from_i64x2(<<NOT_BITS, NOT_BITS>>),
     row_d |-> Row_from_i64x2(<<U64(0), NOT_BITS>>)]

TestStates ==
    {TestState_all_bytes_zeroed, TestState_first_key_byte_is_1,
     TestState_first_nonce_byte_is_1, TestState_all_bytes_set}

\* The first two 64-byte blocks of the buffer, as bytes.
fetch_blocks(data) ==
    LET stream_as_bytes == BytesOfLimbs(Flatten(data))
    IN  <<SubSeq(stream_as_bytes, 1, 64), SubSeq(stream_as_bytes, 65, 128)>>

\* The published blocks 0 and 1 for a test state.
ExpectedBlocks(s) ==
    CASE s = TestState_all_bytes_zeroed ->
           <<all_bytes_zeroed_KEYSTREAM_BLOCK_0, all_bytes_zeroed_KEYSTREAM_BLOCK_1>>
      [] s = TestState_first_key_byte_is_1 ->
           <<first_key_byte_is_1_KEYSTREAM_BLOCK_0, first_key_byte_is_1_KEYSTREAM_BLOCK_1>>
      [] s = TestState_first_nonce_byte_is_1 ->
           <<first_nonce_byte_is_1_KEYSTREAM_BLOCK_0, first_nonce_byte_is_1_KEYSTREAM_BLOCK_1>>
      [] s = TestState_all_bytes_set ->
           <<all_bytes_set_KEYSTREAM_BLOCK_0, all_bytes_set_KEYSTREAM_BLOCK_1>>

(***************************************************************************)
(* 48-byte seeds the entropy source may deliver (util::fill).  They put    *)
(* the counter at 2^32 - 1 and 2^32 - 2 (a carry out of the low word       *)
(* inside one block), at 2^64 - 2 (a wrap inside one block) and give every *)
(* byte of the state its own value.                                        *)
(***************************************************************************)
EntropyBytes(key, ctr, nonce) ==
    MkSeq(CHACHA_SEED_LEN, LAMBDA i :
        IF i <= 32 THEN key[i]
        ELSE IF i <= 40 THEN ctr[i - 32]
        ELSE nonce[i - 40])

Seed_sequential == MkSeq(CHACHA_SEED_LEN, LAMBDA i : i - 1)
Seed_counter_low_max ==
    EntropyBytes(MkSeq(32, LAMBDA i : 0), <<255, 255, 255, 255, 0, 0, 0, 0>>,
                 MkSeq(8, LAMBDA i : 0))
Seed_counter_carry ==
    EntropyBytes(MkSeq(32, LAMBDA i : (7 * i + 3) % 256),
                 <<254, 255, 255, 255, 1, 0, 0, 128>>,
                 MkSeq(8, LAMBDA i : 255 - i))
Seed_counter_wrap ==
    EntropyBytes(MkSeq(32, LAMBDA i : 0), <<254, 255, 255, 255, 255, 255, 255, 255>>,
                 MkSeq(8, LAMBDA i : 0))

EntropySeeds ==
    {Seed_sequential, Seed_counter_low_max, Seed_counter_carry, Seed_counter_wrap}

(***************************************************************************)
(* secure/mod.rs: SecureRng { index, buf, internal }.                      *)
(***************************************************************************)
\* MaybeUninit::uninit().assume_init(): memory whose contents are not set.
Uninit == "uninit"
UninitBuf == MkSeq(BUF_LEN, LAMBDA i : Uninit)
\* Option<T>: None, or Some(x) holding x.
None == <<>>
Some(x) == <<x>>
Unwrap(o) == o[1]

\* A [u64; BUF_LEN] seen as its bytes, little-endian.
BufBytes(buf) == BytesOfLimbs(Flatten(buf))

\* const LEN: usize = size_of::<[u64; BUF_LEN]>()
LEN == 8 * BUF_LEN

\* The SecureRng try_new builds from the seeded core: index 0, buf filled
\* by one block() call.
SecureRng_seeded(M, internal) ==
    CHOOSE result \in
        {[index |-> 0, buf |-> r.buf, internal |-> r.state] :
         r \in {ChaCha_block(M, internal)}} : TRUE

\* try_new that ignores the entropy source's error and seeds from a dest
\* that was never filled.
SecureRng_try_new_ignoring_error(M, fill) ==
    [result |-> "Ok", blocks |-> 1, fills |-> 1,
     rng |-> Some(SecureRng_seeded(M, ChaCha_from(
                 IF fill.ok THEN fill.dest ELSE MkSeq(CHACHA_SEED_LEN, LAMBDA i : 0))))]

\* SecureRng::try_new, given what crate::util::fill(&mut dest) did: fill.ok
\* and, when ok, the 48 bytes fill.dest.  blocks counts the block() calls,
\* fills the calls of the entropy source.
SecureRng_try_new(M, fill) ==
    IF ~fill.ok
    THEN [result |-> "Err", blocks |-> 0, fills |-> 1, rng |-> None]
    ELSE [result |-> "Ok", blocks |-> 1, fills |-> 1,
          rng |-> Some(SecureRng_seeded(M, ChaCha_from(fill.dest)))]

\* Generator::new: try_new().expect(..)
Generator_new(M, fill) ==
    CHOOSE result \in
        {IF r.result = "Err" THEN [r EXCEPT !.result = "panic"] ELSE r :
         r \in {SecureRng_try_new(M, fill)}} : TRUE

\* The refill of u64 with > in place of >=: it waits one call too long.
SecureRng_refill_past_end(M, self) ==
    IF self.index > Len(self.buf)
    THEN CHOOSE result \in
             {[rng |-> [index |-> 0, buf |-> r.buf, internal |-> r.state],
               blocks |-> 1] :
              r \in {ChaCha_block(M, self.internal)}} : TRUE
    ELSE [rng |-> self, blocks |-> 0]

\* if self.index >= self.buf.len() { self.internal.block(&mut self.buf);
\* self.index = 0; }
SecureRng_refill(M, self) ==
    IF self.index >= Len(self.buf)
    THEN CHOOSE result \in
             {[rng |-> [index |-> 0, buf |-> r.buf, internal |-> r.state],
               blocks |-> 1] :
              r \in {ChaCha_block(M, self.internal)}} : TRUE
    ELSE [rng |-> self, blocks |-> 0]

\* let result = self.buf[self.index]; self.index += 1; result
\* The read is bounds-checked; read is the index it is made at.
SecureRng_take(s) ==
    IF s.rng.index >= Len(s.rng.buf)
    THEN [panic |-> TRUE, result |-> None, blocks |-> s.blocks, rng |-> s.rng,
          read |-> s.rng.index]
    ELSE [panic |-> FALSE, result |-> s.rng.buf[s.rng.index + 1],
          blocks |-> s.blocks, read |-> s.rng.index,
          rng |-> [s.rng EXCEPT !.index = s.rng.index + 1]]

\* u64 that refills one call early.
SecureRng_u64_early_refill(M, self) ==
    CHOOSE result \in
        {SecureRng_take(s) :
         s \in {IF self.index + 1 >= Len(self.buf)
                THEN SecureRng_refill(M, [self EXCEPT !.index = Len(self.buf)])
                ELSE [rng |-> self, blocks |-> 0]}} : TRUE

\* u64 that never advances the index.
SecureRng_u64_index_not_advanced(M, self) ==
    [panic |-> FALSE, result |-> self.buf[self.index + 1], blocks |-> 0,
     read |-> self.index, rng |-> self]

\* SecureRng::u64
SecureRng_u64(M, self) ==
    CHOOSE result \in
        {SecureRng_take(s) : s \in {SecureRng_refill(M, self)}} : TRUE

\* dst.chunks_exact_mut(LEN).for_each(|chunk| self.internal.block(chunk)):
\* n more chunks, each filled by one block() call; done holds the core,
\* the bytes written and the block() calls made so far.
RECURSIVE fill_chunks(_, _, _)
fill_chunks(M, done, n) ==
    IF n = 0 THEN done
    ELSE CHOOSE result \in
             {fill_chunks(M, [internal |-> r.state,
                              bytes |-> done.bytes \o BufBytes(r.buf),
                              blocks |-> done.blocks + 1], n - 1) :
              r \in {ChaCha_block(M, done.internal)}} : TRUE

\* The remainder step copying the last bytes of the scratch block, not the
\* first.
fill_remainder_from_tail(M, self, full, remaining_chunk_len) ==
    IF remaining_chunk_len # 0
    THEN CHOOSE result \in
             {[rng |-> [self EXCEPT !.internal = r.state],
               dst |-> full.bytes \o SubSeq(BufBytes(r.buf),
                                            LEN - remaining_chunk_len + 1, LEN),
               blocks |-> full.blocks + 1, scratch |-> 1] :
              r \in {ChaCha_block(M, full.internal)}} : TRUE
    ELSE [rng |-> [self EXCEPT !.internal = full.internal],
          dst |-> full.bytes, blocks |-> full.blocks, scratch |-> 0]

\* if remaining_chunk.len() != 0 { let mut buf = uninit; self.internal
\* .block(&mut buf); copy_nonoverlapping(buf, remaining_chunk, len) }
fill_remainder(M, self, full, remaining_chunk_len) ==
    IF remaining_chunk_len # 0
    THEN CHOOSE result \in
             {[rng |-> [self EXCEPT !.internal = r.state],
               dst |-> full.bytes \o SubSeq(BufBytes(r.buf), 1, remaining_chunk_len),
               blocks |-> full.blocks + 1, scratch |-> 1] :
              r \in {ChaCha_block(M, full.internal)}} : TRUE
    ELSE [rng |-> [self EXCEPT !.internal = full.internal],
          dst |-> full.bytes, blocks |-> full.blocks, scratch |-> 0]

\* fill_bytes that generates the scratch block whatever the remainder is.
SecureRng_fill_bytes_always_scratch(M, self, dst) ==
    CHOOSE result \in
        {[r EXCEPT !.dst = SubSeq(r.dst, 1, Len(dst))] :
         r \in {fill_remainder(M, self,
                    fill_chunks(M, [internal |-> self.internal, bytes |-> <<>>,
                                    blocks |-> 0], Len(dst) \div LEN),
                    LEN)}} : TRUE

\* fill_bytes that leaves the cursor at the end of buf, so that the next
\* u64() refills.
SecureRng_fill_bytes_drops_buf(M, self, dst) ==
    CHOOSE result \in
        {[r EXCEPT !.rng.index = Len(self.buf)] :
         r \in {fill_remainder(M, self,
                    fill_chunks(M, [internal |-> self.internal, bytes |-> <<>>,
                                    blocks |-> 0], Len(dst) \div LEN),
                    Len(dst) % LEN)}} : TRUE

\* SecureRng::fill_bytes(dst).  scratch counts the blocks generated into
\* the local buf.
SecureRng_fill_bytes(M, self, dst) ==
    CHOOSE result \in
        {fill_remainder(M, self, full, Len(dst) % LEN) :
         full \in {fill_chunks(M, [internal |-> self.internal, bytes |-> <<>>,
                                   blocks |-> 0], Len(dst) \div LEN)}} : TRUE

(***************************************************************************)
(* util.rs and rng.rs: the numeric layer every Generator provides on top   *)
(* of its u64().  The generator is any source of words: source is the set  *)
(* of words its u64() may return, draws the most u64() calls one           *)
(* operation is followed through, and an operation yields the set of its   *)
(* outcomes [status, result, words], words being the words it drew.        *)
(* build is the profile the crate was built with: "debug" panics on        *)
(* arithmetic overflow and evaluates debug_assert!, "release" wraps.       *)
(***************************************************************************)
Builds == {"debug", "release"}

U64_BITS == 4 * LimbBits
U64_MAX == NOT_BITS
I64_MAX == <<LimbBase - 1, LimbBase - 1, LimbBase - 1, (LimbBase \div 2) - 1>>
I64_MIN == <<0, 0, 0, LimbBase \div 2>>

Panicked(words) == [status |-> "panic", result |-> <<>>, words |-> words]
Returned(result, words) == [status |-> "returned", result |-> result, words |-> words]

\* x < y, unsigned, on limb sequences of equal length.
LtLimbs(x, y) ==
    \E i \in 1 .. Len(x) :
        /\ x[i] < y[i]
        /\ \A j \in (i + 1) .. Len(x) : x[j] = y[j]
\* !x
NotLimbs(x) == MkSeq(Len(x), LAMBDA i : LimbBase - 1 - x[i])
SubLimbs(x, y) == AddLimbs(x, NotLimbs(y), 1)
wrapping_sub64(x, y) == SubLimbs(x, y)
\* u64::wrapping_neg
wrapping_neg(x) == wrapping_sub64(U64(0), x)
\* The sign of an i64 held in two's complement.
IsNegative(x) == x[4] >= LimbBase \div 2
\* x < y on i64.
LtI64(x, y) ==
    IF IsNegative(x) # IsNegative(y) THEN IsNegative(x) ELSE LtLimbs(x, y)

\* x >> n for n < 64.
shr64(x, n) ==
    LET q == n \div LimbBits
        r == n % LimbBits
        limb(i) == IF i <= 4 THEN x[i] ELSE 0
    IN  MkSeq(4, LAMBDA i :
            (limb(i + q) \div (2 ^ r))
            + (limb(i + q + 1) % (2 ^ r)) * (2 ^ (LimbBits - r)))

\* (x as u128).wrapping_mul(y as u128), byte by byte: column c of the
\* product is the sum of xb[i] * yb[c + 1 - i] plus the carry.
RECURSIVE ColumnSum(_, _, _, _)
ColumnSum(xb, yb, c, i) ==
    IF i = 0 THEN 0
    ELSE (IF (c + 1 - i) \in 1 .. Len(yb) THEN xb[i] * yb[c + 1 - i] ELSE 0)
         + ColumnSum(xb, yb, c, i - 1)
RECURSIVE MulBytes(_, _, _, _)
MulBytes(xb, yb, c, carry) ==
    IF c > Len(xb) + Len(yb) THEN <<>>
    ELSE LET s == carry + ColumnSum(xb, yb, c, Len(xb))
         IN  <<s % 256>> \o MulBytes(xb, yb, c + 1, s \div 256)

\* wide_mul with the two halves exchanged.
wide_mul_halves_swapped(x, y) ==
    LET product == LimbsOfBytes(MulBytes(BytesOfLimbs(x), BytesOfLimbs(y), 1, 0))
    IN  [high |-> SubSeq(product, 1, 4), low |-> SubSeq(product, 5, 8)]

\* util::wide_mul(x, y) -> (high, low)
wide_mul(x, y) ==
    LET product == LimbsOfBytes(MulBytes(BytesOfLimbs(x), BytesOfLimbs(y), 1, 0))
    IN  [high |-> SubSeq(product, 5, 8), low |-> SubSeq(product, 1, 4)]

\* a % b for b # 0, by binary long division over the bits of a, the most
\* significant first; the running remainder has one limb more than b.
RemStep(rem, b, bit) ==
    LET r2 == AddLimbs(rem, rem, bit)
    IN  IF LtLimbs(r2, b) THEN r2 ELSE SubLimbs(r2, b)
RECURSIVE RemBits(_, _, _, _)
RemBits(rem, b, limb, k) ==
    IF k = 0 THEN rem
    ELSE CHOOSE r \in
             {RemBits(s, b, limb, k - 1) :
              s \in {RemStep(rem, b, (limb \div (2 ^ (k - 1))) % 2)}} : TRUE
RECURSIVE RemLimbs(_, _, _, _)
RemLimbs(rem, b, a, i) ==
    IF i = 0 THEN rem
    ELSE CHOOSE r \in
             {RemLimbs(s, b, a, i - 1) :
              s \in {RemBits(rem, b, a[i], LimbBits)}} : TRUE
rem64(a, b) == SubSeq(RemLimbs(<<0, 0, 0, 0, 0>>, b \o <<0>>, a, 4), 1, 4)

Min(a, b) == IF a <= b THEN a ELSE b

\* bits that keeps one bit more than it was asked for.
bits_one_more_bit(word, bit_count, build) ==
    Returned(shr64(word, U64_BITS - Min(bit_count + 1, U64_BITS)), <<word>>)

\* Generator::bits(bit_count), word being what self.u64() returned.  A
\* shift by 64 overflows: a panic with overflow checks, and a shift by
\* 64 mod 64 without them.
bits(word, bit_count, build) ==
    LET shift == U64_BITS - Min(bit_count, U64_BITS)
    IN  IF shift < U64_BITS THEN Returned(shr64(word, shift), <<word>>)
        ELSE IF build = "debug" THEN Panicked(<<word>>)
        ELSE Returned(shr64(word, shift % U64_BITS), <<word>>)

\* The debug_assert! that ends bound, and its return of high.  threshold
\* is Some(t) when the call computed the threshold t, None when it did not.
bound_return(max, high, words, threshold, build) ==
    IF /\ build = "debug"
       /\ ~((max # U64(0) /\ LtLimbs(high, max)) \/ high = U64(0))
    THEN [status |-> "panic", result |-> <<>>, words |-> words,
          threshold |-> threshold]
    ELSE [status |-> "returned", result |-> high, words |-> words,
          threshold |-> threshold]

\* bound's loop leaving on low < threshold, the test the source loops on.
RECURSIVE bound_loop_inverted_test(_, _, _, _, _, _, _)
bound_loop_inverted_test(source, draws, max, threshold, product, words, build) ==
    IF LtLimbs(product.low, threshold)
    THEN {bound_return(max, product.high, words, Some(threshold), build)}
    ELSE IF Len(words) >= draws THEN {}
    ELSE UNION {bound_loop_inverted_test(source, draws, max, threshold,
                                         wide_mul(w, max), Append(words, w),
                                         build) : w \in source}

\* while low < threshold { (high, low) = wide_mul(self.u64(), max) }
RECURSIVE bound_loop(_, _, _, _, _, _, _)
bound_loop(source, draws, max, threshold, product, words, build) ==
    IF ~LtLimbs(product.low, threshold)
    THEN {bound_return(max, product.high, words, Some(threshold), build)}
    ELSE IF Len(words) >= draws THEN {}
    ELSE UNION {bound_loop(source, draws, max, threshold, wide_mul(w, max),
                           Append(words, w), build) : w \in source}

\* bound_match that computes the threshold before it looks at low.
bound_match_threshold_first(source, draws, max, product, words, build) ==
    IF max = U64(0)
    THEN {bound_return(max, product.high, words, None, build)}
    ELSE bound_loop(source, draws, max, rem64(wrapping_neg(max), max),
                    product, words, build)

\* match low < max: false returns, true computes the threshold and loops.
bound_match(source, draws, max, product, words, build) ==
    IF ~LtLimbs(product.low, max)
    THEN {bound_return(max, product.high, words, None, build)}
    ELSE bound_loop(source, draws, max, rem64(wrapping_neg(max), max),
                    product, words, build)

\* Generator::bound(max)
bound(source, draws, max, build) ==
    UNION {bound_match(source, draws, max, wide_mul(w, max), <<w>>, build) :
           w \in source}

\* Generator::bound_inclusive(max): max + 1 overflows for u64::MAX.
bound_inclusive(source, draws, max, build) ==
    IF max = U64_MAX /\ build = "debug" THEN {Panicked(<<>>)}
    ELSE bound(source, draws, wrapping_add64(max, U64(1)), build)

\* i64::abs_diff
abs_diff(self, other) ==
    IF LtI64(self, other) THEN wrapping_sub64(other, self)
    ELSE wrapping_sub64(self, other)

\* x + y on i64: overflow when the operands agree in sign and the sum
\* does not.
add_i64(x, y, words, build) ==
    LET sum == wrapping_add64(x, y)
    IN  IF /\ build = "debug"
           /\ IsNegative(x) = IsNegative(y)
           /\ IsNegative(sum) # IsNegative(x)
        THEN Panicked(words)
        ELSE Returned(sum, words)

\* Generator::range(min, max)
range(source, draws, min, max, build) ==
    {IF r.status = "panic" THEN r ELSE add_i64(r.result, min, r.words, build) :
     r \in bound(source, draws, abs_diff(max, min), build)}

\* Generator::range_inclusive(min, max): max + 1 overflows for i64::MAX.
range_inclusive(source, draws, min, max, build) ==
    IF max = I64_MAX /\ build = "debug" THEN {Panicked(<<>>)}
    ELSE range(source, draws, min, wrapping_add64(max, U64(1)), build)

(***************************************************************************)
(* rng.rs: the float generators.  A result is numerator / 2^MANT; the      *)
(* numerators have magnitude at most 2^MANT, so `as f64` / `as f32` and    *)
(* the division by a power of two are exact, and an operation is modelled  *)
(* by the integer numerator it converts: result holds that integer.        *)
(***************************************************************************)
F64_MANT == 53
F32_MANT == 24
\* 1 << n as a u64, n < 64.
Pow2(n) ==
    MkSeq(4, LAMBDA i : IF i = (n \div LimbBits) + 1 THEN 2 ^ (n % LimbBits) ELSE 0)
F64_MAX_PRECISE == Pow2(F64_MANT)
F32_MAX_PRECISE == Pow2(F32_MANT)

\* x + y on u64: overflow when the sum wraps below x.
add_u64(x, y, words, build) ==
    LET sum == wrapping_add64(x, y)
    IN  IF build = "debug" /\ LtLimbs(sum, x) THEN Panicked(words)
        ELSE Returned(sum, words)

\* x - y on i64: overflow when the operands differ in sign and the
\* difference has not the sign of x.
sub_i64(x, y, words, build) ==
    LET diff == wrapping_sub64(x, y)
    IN  IF /\ build = "debug"
           /\ IsNegative(x) # IsNegative(y)
           /\ IsNegative(diff) # IsNegative(x)
        THEN Panicked(words)
        ELSE Returned(diff, words)

\* Generator::f64 / Generator::f32: self.bits(MANT) as f / DIVISOR
f64(word, build) == bits(word, F64_MANT, build)
f32(word, build) == bits(word, F32_MANT, build)

\* let nonzero = self.bits(MANT) + 1
nonzero_numerator(word, MANT, build) ==
    LET r == bits(word, MANT, build)
    IN  IF r.status = "panic" THEN r
        ELSE add_u64(r.result, U64(1), r.words, build)
\* Generator::f64_nonzero / Generator::f32_nonzero
f64_nonzero(word, build) == nonzero_numerator(word, F64_MANT, build)
f32_nonzero(word, build) == nonzero_numerator(word, F32_MANT, build)

\* loop { x = self.bits(BITS) as i64; if x != 0 { break; } }
RECURSIVE wide_loop(_, _, _, _, _)
wide_loop(source, draws, BITS, words, build) ==
    UNION {LET r == bits(w, BITS, build)
           IN  IF r.status = "panic" THEN {Panicked(Append(words, w))}
               ELSE IF r.result # U64(0)
               THEN {Returned(r.result, Append(words, w))}
               ELSE IF Len(words) + 1 >= draws THEN {}
               ELSE wide_loop(source, draws, BITS, Append(words, w), build) :
           w \in source}
\* x -= OFFSET
wide_numerator(source, draws, MANT, OFFSET, build) ==
    {IF r.status = "panic" THEN r
     ELSE sub_i64(r.result, OFFSET, r.words, build) :
     r \in wide_loop(source, draws, MANT + 1, <<>>, build)}
\* Generator::f64_wide / Generator::f32_wide
f64_wide(source, draws, build) ==
    wide_numerator(source, draws, F64_MANT, F64_MAX_PRECISE, build)
f32_wide(source, draws, build) ==
    wide_numerator(source, draws, F32_MANT, F32_MAX_PRECISE, build)

(***************************************************************************)
(* rng.rs: shuffle and choose.  A slice is a sequence; the source's index  *)
(* i is the sequence's position i + 1.                                     *)
(***************************************************************************)
\* v as usize, for a v that indexes a modelled slice: every v of 2^16 or
\* more is beyond all of them.
as_usize(v) ==
    IF v[2] = 0 /\ v[3] = 0 /\ v[4] = 0 THEN v[1] ELSE LimbBase

\* ptr::swap that copies slice[j] over slice[i] and not slice[i] over
\* slice[j].
ptr_swap_copy_only(slice, i, j) ==
    MkSeq(Len(slice), LAMBDA k : IF k = i + 1 THEN slice[j + 1] ELSE slice[k])

\* ptr::swap(slice_ptr.add(i), slice_ptr.add(j))
ptr_swap(slice, i, j) ==
    MkSeq(Len(slice), LAMBDA k : IF k = i + 1 THEN slice[j + 1]
                                 ELSE IF k = j + 1 THEN slice[i + 1]
                                 ELSE slice[k])

\* for i in (1..slice.len()).rev(): the iterations from i down to 1.  A
\* swap outside the slice is undefined behaviour: the outcome "undefined"
\* stands for whatever follows it.
RECURSIVE shuffle_loop(_, _, _, _, _, _, _)
shuffle_loop(source, draws, slice, i, words, swaps, build) ==
    IF i < 1
    THEN {[status |-> "returned", result |-> slice, words |-> words,
           swaps |-> swaps]}
    ELSE UNION {
           IF r.status = "panic"
           THEN {[status |-> "panic", result |-> <<>>,
                  words |-> words \o r.words, swaps |-> swaps]}
           ELSE LET j == as_usize(r.result)
                IN
                  IF j >= Len(slice)
                  THEN {[status |-> "undefined", result |-> <<>>,
                         words |-> words \o r.words,
                         swaps |-> Append(swaps, <<i, j>>)]}
                  ELSE shuffle_loop(source, draws, ptr_swap(slice, i, j),
                                    i - 1, words \o r.words,
                                    Append(swaps, <<i, j>>), build) :
           r \in bound_inclusive(source, draws, U64(i), build)}

\* shuffle whose loop starts one index early, at slice.len() - 2.
shuffle_skips_last(source, draws, slice, build) ==
    shuffle_loop(source, draws, slice, Len(slice) - 2, <<>>, <<>>, build)

\* Generator::shuffle
shuffle(source, draws, slice, build) ==
    shuffle_loop(source, draws, slice, Len(slice) - 1, <<>>, <<>>, build)

\* Iterator::nth that passes over one element more than it was asked to.
nth_skips_one(iter, n) ==
    IF n + 1 < Len(iter) THEN Some(iter[n + 2])
    ELSE None

\* Iterator::nth on the iterator of a slice
nth(iter, n) ==
    IF n < Len(iter) THEN Some(iter[n + 1])
    ELSE None

\* Generator::choose.  calls holds the arguments of the calls of bound,
\* picked what bound returned; unwrap_unchecked of a None is undefined
\* behaviour, and the outcome "undefined" stands for whatever follows it.
choose(source, draws, collection, build) ==
    IF Len(collection) # 0
    THEN {IF r.status = "panic"
          THEN [status |-> "panic", result |-> <<>>, words |-> r.words,
                calls |-> <<U64(Len(collection))>>, picked |-> <<>>]
          ELSE IF nth(collection, as_usize(r.result)) = None
          THEN [status |-> "undefined", result |-> <<>>, words |-> r.words,
                calls |-> <<U64(Len(collection))>>, picked |-> r.result]
          ELSE [status |-> "returned",
                result |-> nth(collection, as_usize(r.result)),
                words |-> r.words,
                calls |-> <<U64(Len(collection))>>, picked |-> r.result] :
          r \in bound(source, draws, U64(Len(collection)), build)}
    ELSE {[status |-> "returned", result |-> None,
           words |-> <<>>, calls |-> <<>>, picked |-> <<>>]}

(***************************************************************************)
(* util.rs state_from_seed and xoshiro256pp.rs.                            *)
(***************************************************************************)
xor64(x, y) == MkSeq(4, LAMBDA i : Xor16(x[i], y[i]))

\* x << n on u64, n < 64.
shl64(x, n) ==
    LET q == n \div LimbBits
        r == n % LimbBits
        limb(i) == IF i >= 1 THEN x[i] ELSE 0
    IN  MkSeq(4, LAMBDA i :
            ((limb(i - q) * (2 ^ r)) % LimbBase)
            + (limb(i - q - 1) \div (2 ^ (LimbBits - r))))

\* u64::rotate_left(n), 0 < n < 64.
rotate_left64(x, n) ==
    LET l == shl64(x, n)
        h == shr64(x, U64_BITS - n)
    IN  MkSeq(4, LAMBDA i : Or16(l[i], h[i]))

wrapping_mul(x, y) == wide_mul(x, y).low

\* z ^ (z >> n)
xorshift(z, n) == xor64(z, shr64(z, n))

\* 0x9E3779B97F4A7C15, 0xBF58476D1CE4E5B9, 0x94D049BB133111EB
SPLITMIX_GAMMA == <<31765, 32586, 31161, 40503>>
SPLITMIX_MUL_1 == <<58809, 7396, 18285, 48984>>
SPLITMIX_MUL_2 == <<4587, 4913, 18875, 38096>>

\* The value SplitMix64 stores for its state x.
splitmix_output(x) ==
    xorshift(wrapping_mul(xorshift(wrapping_mul(xorshift(x, 30),
                                                SPLITMIX_MUL_1), 27),
                          SPLITMIX_MUL_2), 31)

\* for v in &mut state: the last n elements, x being SplitMix64's state.
RECURSIVE state_from_seed_loop(_, _)
state_from_seed_loop(x, n) ==
    IF n = 0 THEN <<>>
    ELSE <<splitmix_output(wrapping_add64(x, SPLITMIX_GAMMA))>>
         \o state_from_seed_loop(wrapping_add64(x, SPLITMIX_GAMMA), n - 1)

\* util::state_from_seed::<SIZE>(seed)
state_from_seed(SIZE, seed) == state_from_seed_loop(seed, SIZE)

\* Xoshiro256pp::u64: the result and the generator after the call.
Xoshiro256pp_u64(self) ==
    LET s == self.state
        tmp == shl64(s[2], 17)
        s2 == xor64(s[3], s[1])
        s3 == xor64(s[4], s[2])
        s1 == xor64(s[2], s2)
        s0 == xor64(s[1], s3)
    IN  [result |-> wrapping_add64(
                        rotate_left64(wrapping_add64(s[1], s[4]), 23), s[1]),
         self |-> [state |-> <<s0, s1, xor64(s2, tmp), rotate_left64(s3, 45)>>]]

\* Xoshiro256pp::new_with_seed
Xoshiro256pp_new_with_seed(seed) ==
    Xoshiro256pp_u64([state |-> state_from_seed(4, seed)]).self

\* Default for Xoshiro256pp, seeding with 1.
Xoshiro256pp_default_seed_one(unit) == Xoshiro256pp_new_with_seed(U64(1))

\* Default for Xoshiro256pp; unit is ().
Xoshiro256pp_default(unit) == Xoshiro256pp_new_with_seed(U64(0))

(***************************************************************************)
(* rng.rs bound on words of W bits in place of 64, on plain integers: the  *)
(* first draw of a call, which either returns or asks for another word.    *)
(***************************************************************************)
\* util::wide_mul at width W
wide_mul_at(W, x, y) ==
    [high |-> (x * y) \div (2 ^ W), low |-> (x * y) % (2 ^ W)]

\* bound's first draw without the rejection of the low products.
bound_first_draw_never_redraws(W, word, max) ==
    [redraw |-> FALSE, result |-> wide_mul_at(W, word, max).high]

\* Generator::bound's first draw at width W, max # 0: the match on
\* low < max, the threshold max.wrapping_neg() % max and the loop's test.
bound_first_draw(W, word, max) ==
    LET product == wide_mul_at(W, word, max)
        threshold == (((2 ^ W) - max) % (2 ^ W)) % max
    IN  IF product.low < max /\ product.low < threshold
        THEN [redraw |-> TRUE, result |-> product.high]
        ELSE [redraw |-> FALSE, result |-> product.high]

(***************************************************************************)
(* State.                                                                  *)
(*   machine             the Machine backend the build selected            *)
(*   cc_state, cc_data   a ChaCha<M> and the buffer its block() fills      *)
(*   cc_seed, cc_prev    the state it started from / held before the last  *)
(*                       block() call                                      *)
(*   cc_blocks           block() calls made on cc_state                    *)
(*   rng                 the SecureRng, None before it is constructed      *)
(*   rng_seed            the ChaCha state its entropy seed gave            *)
(*   rng_last            the last call made: op, status ("Ok", "Err",      *)
(*                       "returned" or "panic") and what it returned       *)
(*   n_block, n_u64,     block() calls made on rng.internal, u64() and     *)
(*   n_fill              fill_bytes() calls made on rng                    *)
(*   build               the profile the crate was built with              *)
(*   num_last            the last numeric-layer call made: op, args,       *)
(*                       status ("returned" or "panic"), result and the    *)
(*                       words it drew from u64()                          *)
(***************************************************************************)
VARIABLES machine, cc_state, cc_data, cc_seed, cc_prev, cc_blocks,
          rng, rng_seed, rng_last, n_block, n_u64, n_fill,
          build, num_last,
          shiro, census, resample

cc_vars == <<cc_state, cc_data, cc_seed, cc_prev, cc_blocks>>
rng_vars == <<rng, rng_seed, rng_last, n_block, n_u64, n_fill>>
num_vars == <<build, num_last>>
seed_vars == <<shiro>>
bias_vars == <<census>>
loop_vars == <<resample>>
vars == <<machine, cc_vars, rng_vars, num_vars, seed_vars, bias_vars,
          loop_vars>>

\* Most block() calls made on one ChaCha in the model.
MaxBlocks == 2
\* Most u64() calls, most fill_bytes() calls, and most u64() calls that a
\* fill_bytes() call may follow.
MaxU64 == 66
MaxFills == 1
MaxU64BeforeFill == 2
\* The dst lengths fill_bytes is called with.
FillLens == {0, 1, LEN - 1, LEN, LEN + 1}
\* The seeds the entropy source delivers to try_new.
RngSeeds == {Seed_sequential, Seed_counter_wrap}

ZeroBuf == MkSeq(BUF_LEN, LAMBDA i : U64(0))

NoChaCha == /\ cc_state = ChaCha_default
            /\ cc_seed = ChaCha_default
            /\ cc_prev = ChaCha_default
            /\ cc_data = ZeroBuf
            /\ cc_blocks = 0

NoRng == /\ rng = None
         /\ rng_seed = None
         /\ rng_last = [op |-> "none", status |-> "none"]
         /\ n_block = 0
         /\ n_u64 = 0
         /\ n_fill = 0

\* No numeric-layer call is made; nothing the ChaCha core or SecureRng
\* does depends on overflow checks.
NoNum == /\ build = "release"
         /\ num_last = [op |-> "none", status |-> "none"]

\* The Xoshiro256pp generators of the model, and one not yet constructed.
Gens == 1..2
NoGen == [made |-> "none", seed |-> None, self |-> None, outs |-> <<>>]
\* No seeded generator has been constructed.
NoShiro == shiro = [g \in Gens |-> NoGen]

\* No census of bound's results is being taken.
NoCensus == census = [max |-> 0, next |-> 0, counts |-> <<>>, redrawn |-> 0]

\* No operation is being followed through its resample loops.
NoResample == resample = [op |-> "none", pending |-> <<>>, first |-> TRUE,
                          last |-> None, redrew |-> FALSE]

(***************************************************************************)
(* SpecChaCha: one ChaCha<M> driven by block(), as chacha_test drives it.  *)
(***************************************************************************)
InitChaCha ==
    /\ machine \in Backends
    /\ cc_seed \in TestStates \cup {ChaCha_from(e) : e \in EntropySeeds}
    /\ cc_state = cc_seed
    /\ cc_prev = cc_seed
    /\ cc_data = ZeroBuf
    /\ cc_blocks = 0
    /\ NoShiro
    /\ NoCensus
    /\ NoResample
    /\ NoRng
    /\ NoNum

\* state.block(&mut data)
BlockCall ==
    /\ cc_blocks < MaxBlocks
    /\ \E r \in {ChaCha_block(machine, cc_state)} :
          /\ cc_state' = r.state
          /\ cc_data' = r.buf
    /\ cc_prev' = cc_state
    /\ cc_blocks' = cc_blocks + 1
    /\ UNCHANGED <<machine, cc_seed, rng_vars, num_vars, seed_vars, bias_vars, loop_vars>>

NextChaCha == BlockCall

SpecChaCha == InitChaCha /\ [][NextChaCha]_vars

(***************************************************************************)
(* Spec: a program that constructs one SecureRng and calls u64() and       *)
(* fill_bytes() on it.                                                     *)
(***************************************************************************)
Init ==
    /\ machine \in Backends
    /\ NoChaCha
    /\ NoRng
    /\ NoNum
    /\ NoShiro
    /\ NoCensus
    /\ NoResample

\* What crate::util::fill(&mut dest) can do: fail, or fill dest.
FillOutcomes == {[ok |-> FALSE]} \cup {[ok |-> TRUE, dest |-> e] : e \in RngSeeds}

\* A panic ends the program.
Running == rng_last.status # "panic"

Construct(op, r, fill) ==
    /\ rng' = r.rng
    /\ rng_seed' = IF fill.ok THEN Some(ChaCha_from(fill.dest)) ELSE None
    /\ rng_last' = [op |-> op, status |-> r.result, entropy_ok |-> fill.ok,
                    fills |-> r.fills,
                    dest |-> IF fill.ok THEN fill.dest ELSE <<>>]
    /\ n_block' = n_block + r.blocks
    /\ UNCHANGED <<machine, cc_vars, n_u64, n_fill, num_vars, seed_vars, bias_vars, loop_vars>>

\* let rng = SecureRng::try_new();
TryNew ==
    /\ Running
    /\ rng = None
    /\ \E fill \in FillOutcomes :
          \E r \in {SecureRng_try_new(machine, fill)} : Construct("try_new", r, fill)

\* let rng = SecureRng::new();
New ==
    /\ Running
    /\ rng = None
    /\ \E fill \in FillOutcomes :
          \E r \in {Generator_new(machine, fill)} : Construct("new", r, fill)

\* rng.u64()
U64Call ==
    /\ Running
    /\ rng # None
    /\ n_u64 < MaxU64
    /\ \E r \in {SecureRng_u64(machine, Unwrap(rng))} :
          /\ rng' = Some(r.rng)
          /\ rng_last' = [op |-> "u64",
                          status |-> IF r.panic THEN "panic" ELSE "returned",
                          result |-> r.result, read |-> r.read,
                          blocks |-> r.blocks, before |-> Unwrap(rng)]
          /\ n_block' = n_block + r.blocks
    /\ n_u64' = n_u64 + 1
    /\ UNCHANGED <<machine, cc_vars, rng_seed, n_fill, num_vars, seed_vars, bias_vars, loop_vars>>

\* rng.fill_bytes(&mut dst), dst of any of the lengths FillLens.
FillBytesCall ==
    /\ Running
    /\ rng # None
    /\ n_fill < MaxFills
    /\ n_u64 <= MaxU64BeforeFill
    /\ \E len \in FillLens :
          \E r \in {SecureRng_fill_bytes(machine, Unwrap(rng),
                                          MkSeq(len, LAMBDA i : 0))} :
             /\ rng' = Some(r.rng)
             /\ rng_last' = [op |-> "fill_bytes", status |-> "returned",
                             len |-> len, dst |-> r.dst, blocks |-> r.blocks,
                             scratch |-> r.scratch, before |-> Unwrap(rng)]
             /\ n_block' = n_block + r.blocks
    /\ n_fill' = n_fill + 1
    /\ UNCHANGED <<machine, cc_vars, rng_seed, n_u64, num_vars, seed_vars, bias_vars, loop_vars>>

Next == TryNew \/ New \/ U64Call \/ FillBytesCall

Spec == Init /\ [][Next]_vars

(***************************************************************************)
(* Claims about ChaCha::block, checked under SpecChaCha.                   *)
(***************************************************************************)
\* C1: for every state, block() computed with the Soft, SSE2, AVX2, AVX512
\* and NEON backends yields the same 32 u64 words: the buffer the selected
\* backend filled is the buffer every backend computes from the same state.
C1_BackendsAgree ==
    cc_blocks > 0 =>
        \A M \in Backends : cc_data = ChaCha_block_buf(M, cc_prev)

\* C2: for each of the four counter-0 test states, the first 128 bytes of
\* the first block() output are the published keystream blocks 0 and 1.
C2_TestVectors ==
    (cc_blocks = 1 /\ cc_seed \in TestStates) =>
        fetch_blocks(cc_data) = ExpectedBlocks(cc_seed)

\* x + 1 mod 2^64 on the limbs of x, and x + n by n increments.
RECURSIVE Succ64(_)
Succ64(x) ==
    IF x = <<>> THEN <<>>
    ELSE IF Head(x) = LimbBase - 1 THEN <<0>> \o Succ64(Tail(x))
    ELSE <<Head(x) + 1>> \o Tail(x)

RECURSIVE AddSmall(_, _)
AddSmall(x, n) == IF n = 0 THEN x ELSE AddSmall(Succ64(x), n - 1)

\* C3: after N calls of block() the stored 64-bit counter is
\* (initial_counter + 4N) mod 2^64, wrapping past 2^64 - 1, and the rest of
\* the stored state is as it was.
C3_CounterAdvances ==
    /\ Counter(cc_state) = AddSmall(Counter(cc_seed), 4 * cc_blocks)
    /\ cc_state.row_b = cc_seed.row_b
    /\ cc_state.row_c = cc_seed.row_c
    /\ Row_i64x2(cc_state.row_d)[2] = Row_i64x2(cc_seed.row_d)[2]

\* A counter two below 2^64 has wrapped to 2 after one block() call.
C3_Witness ==
    /\ cc_blocks = 1
    /\ Counter(cc_seed) = <<LimbBase - 2, LimbBase - 1, LimbBase - 1, LimbBase - 1>>
    /\ Counter(cc_state) = <<2, 0, 0, 0>>

\* The NEON backend's first block() of the all-zero state.
C1_Witness ==
    /\ machine = "neon"
    /\ cc_blocks = 1
    /\ cc_seed = TestState_all_bytes_zeroed

\* The soft backend's first block() of the all-bits-set test state.
C2_Witness ==
    /\ machine = "soft"
    /\ cc_blocks = 1
    /\ cc_seed = TestState_all_bytes_set
    /\ fetch_blocks(cc_data) = ExpectedBlocks(cc_seed)


(***************************************************************************)
(* SpecNum: one call of a numeric-layer operation on a Generator whose     *)
(* u64() may return any of SourceWords.                                    *)
(***************************************************************************)
\* Most u64() calls one bound() call is followed through.
MaxDraws == 2
\* The longest slice shuffled or chosen from.
MaxSliceLen == 3
\* 0, 1, 2, 2^63, 2^64 - 1 and a word with no pattern.
SourceWords == {U64(0), U64(1), U64(2), I64_MIN, U64_MAX, <<43981, 4660, 65535, 1>>}
\* The bit_count arguments (u32).
BitCounts == {0, 1, 8, 16, 17, 32, 63, 64, 65, 2 ^ 30}
\* The max arguments of bound and bound_inclusive: 0, 1, 3, 2000, 2^32,
\* 2^63, 2^63 + 1, 2^64 - 1.
BoundMaxes == {U64(0), U64(1), U64(3), U64(2000), <<0, 0, 1, 0>>, I64_MIN,
               <<1, 0, 0, LimbBase \div 2>>, U64_MAX}
\* The min and max arguments of range and range_inclusive: i64::MIN, -1,
\* 0, 1, 7, i64::MAX.
RangeEnds == {I64_MIN, U64_MAX, U64(0), U64(1), U64(7), I64_MAX}

InitNum ==
    /\ machine = "soft"
    /\ NoChaCha
    /\ NoRng
    /\ build \in Builds
    /\ num_last = [op |-> "none", status |-> "none"]
    /\ NoShiro
    /\ NoCensus
    /\ NoResample

\* The operations take nothing from one call to the next but the
\* generator, which is any source of words: a behaviour makes one call.
NumIdle == num_last.op = "none"

NumCall(op, args, r) ==
    /\ num_last' = [op |-> op, args |-> args, status |-> r.status,
                    result |-> r.result, words |-> r.words]
    /\ UNCHANGED <<machine, cc_vars, rng_vars, build, seed_vars, bias_vars, loop_vars>>

\* rng.bits(bit_count)
BitsCall ==
    /\ NumIdle
    /\ \E bit_count \in BitCounts, word \in SourceWords :
          NumCall("bits", <<bit_count>>, bits(word, bit_count, build))

\* rng.bound(max)
BoundCall ==
    /\ NumIdle
    /\ \E max \in BoundMaxes :
          \E r \in bound(SourceWords, MaxDraws, max, build) :
              /\ num_last' = [op |-> "bound", args |-> <<max>>,
                              status |-> r.status, result |-> r.result,
                              words |-> r.words, threshold |-> r.threshold]
              /\ UNCHANGED <<machine, cc_vars, rng_vars, build, seed_vars, bias_vars, loop_vars>>

\* rng.bound_inclusive(max)
BoundInclusiveCall ==
    /\ NumIdle
    /\ \E max \in BoundMaxes :
          \E r \in bound_inclusive(SourceWords, MaxDraws, max, build) :
              NumCall("bound_inclusive", <<max>>, r)

\* rng.range(min, max)
RangeCall ==
    /\ NumIdle
    /\ \E min \in RangeEnds, max \in RangeEnds :
          \E r \in range(SourceWords, MaxDraws, min, max, build) :
              NumCall("range", <<min, max>>, r)

\* rng.range_inclusive(min, max)
RangeInclusiveCall ==
    /\ NumIdle
    /\ \E min \in RangeEnds, max \in RangeEnds :
          \E r \in range_inclusive(SourceWords, MaxDraws, min, max, build) :
              NumCall("range_inclusive", <<min, max>>, r)

\* rng.f64(), rng.f32(), rng.f64_nonzero(), rng.f32_nonzero()
F64Call ==
    /\ NumIdle
    /\ \E word \in SourceWords : NumCall("f64", <<>>, f64(word, build))

F32Call ==
    /\ NumIdle
    /\ \E word \in SourceWords : NumCall("f32", <<>>, f32(word, build))

F64NonzeroCall ==
    /\ NumIdle
    /\ \E word \in SourceWords :
          NumCall("f64_nonzero", <<>>, f64_nonzero(word, build))

F32NonzeroCall ==
    /\ NumIdle
    /\ \E word \in SourceWords :
          NumCall("f32_nonzero", <<>>, f32_nonzero(word, build))

\* rng.f64_wide(), rng.f32_wide()
F64WideCall ==
    /\ NumIdle
    /\ \E r \in f64_wide(SourceWords, MaxDraws, build) :
          NumCall("f64_wide", <<>>, r)

F32WideCall ==
    /\ NumIdle
    /\ \E r \in f32_wide(SourceWords, MaxDraws, build) :
          NumCall("f32_wide", <<>>, r)

\* The slices of n elements that are shuffled: one of distinct elements
\* and one that holds an element more than once.
Slices(n) ==
    {MkSeq(n, LAMBDA k : k), MkSeq(n, LAMBDA k : (k * k) % 3)}

\* rng.shuffle(&mut slice)
ShuffleCall ==
    /\ NumIdle
    /\ \E n \in 0..MaxSliceLen :
          \E slice \in Slices(n) :
              \E r \in shuffle(SourceWords, MaxDraws, slice, build) :
                  /\ num_last' = [op |-> "shuffle", args |-> <<slice>>,
                                  status |-> r.status, result |-> r.result,
                                  words |-> r.words, swaps |-> r.swaps]
                  /\ UNCHANGED <<machine, cc_vars, rng_vars, build, seed_vars, bias_vars, loop_vars>>

\* rng.choose(collection)
ChooseCall ==
    /\ NumIdle
    /\ \E n \in 0..MaxSliceLen :
          \E collection \in Slices(n) :
              \E r \in choose(SourceWords, MaxDraws, collection, build) :
                  /\ num_last' = [op |-> "choose", args |-> <<collection>>,
                                  status |-> r.status, result |-> r.result,
                                  words |-> r.words, calls |-> r.calls,
                                  picked |-> r.picked]
                  /\ UNCHANGED <<machine, cc_vars, rng_vars, build, seed_vars, bias_vars, loop_vars>>

NextNum ==
    \/ BitsCall
    \/ BoundCall
    \/ BoundInclusiveCall
    \/ RangeCall
    \/ RangeInclusiveCall
    \/ F64Call
    \/ F32Call
    \/ F64NonzeroCall
    \/ F32NonzeroCall
    \/ F64WideCall
    \/ F32WideCall
    \/ ShuffleCall
    \/ ChooseCall

SpecNum == InitNum /\ [][NextNum]_vars

(***************************************************************************)
(* Claims about SecureRng, checked under Spec.                             *)
(***************************************************************************)
\* C4: on a SecureRng only asked for u64() values, block() is called once
\* at construction and then once per 32 u64() calls: after k >= 1 calls the
\* number of block() calls is 1 + floor((k-1)/32) and the stored counter
\* has advanced by 4 times that from the seed counter.
C4_BlockPer32Calls ==
    (rng # None /\ n_fill = 0 /\ n_u64 >= 1) =>
        /\ n_block = 1 + ((n_u64 - 1) \div 32)
        /\ Counter(Unwrap(rng).internal) =
               AddSmall(Counter(Unwrap(rng_seed)), 4 * (1 + ((n_u64 - 1) \div 32)))

\* The 33rd u64() call has made the second block() call.
C4_Witness ==
    /\ n_fill = 0
    /\ n_u64 = 33
    /\ n_block = 2
    /\ Unwrap(rng).index = 1

\* The buf the (j+1)-th block() call fills on a core started in state s.
RECURSIVE NthBlock(_, _, _)
NthBlock(M, s, j) ==
    IF j = 0 THEN ChaCha_block(M, s).buf
    ELSE NthBlock(M, ChaCha_block(M, s).state, j - 1)

\* C5: on a SecureRng on which only u64() is called, the k-th call (k >= 0)
\* returns word k mod 32 of the floor(k/32)-th block its core produces from
\* the seed state.
C5_WordsInGenerationOrder ==
    (rng_last.op = "u64" /\ n_fill = 0) =>
        /\ rng_last.status = "returned"
        /\ rng_last.result =
               NthBlock(machine, Unwrap(rng_seed),
                        (n_u64 - 1) \div 32)[((n_u64 - 1) % 32) + 1]

\* Call 32 (counted from 0) has returned word 0 of the second block.
C5_Witness ==
    /\ rng_last.op = "u64"
    /\ n_fill = 0
    /\ n_u64 = 33
    /\ rng_last.result = Unwrap(rng).buf[1]
    /\ rng_last.result # NthBlock(machine, Unwrap(rng_seed), 0)[1]

\* C8: try_new is the only operation that can fail: on an entropy failure
\* it returns the error, builds no generator and calls no block(); new()
\* panics in exactly that case; u64() and fill_bytes() always return.
C8_OnlyTryNewFails ==
    /\ rng_last.op = "try_new" =>
          /\ rng_last.status = (IF rng_last.entropy_ok THEN "Ok" ELSE "Err")
          /\ ~rng_last.entropy_ok => (rng = None /\ n_block = 0)
    /\ rng_last.op = "new" =>
          rng_last.status = (IF rng_last.entropy_ok THEN "Ok" ELSE "panic")
    /\ rng_last.op \in {"u64", "fill_bytes"} => rng_last.status = "returned"
    /\ rng_last.status = "Err" => rng_last.op = "try_new"
    /\ rng_last.status = "panic" => rng_last.op = "new"

\* try_new has returned the entropy source's error.
C8_Witness ==
    /\ rng_last.op = "try_new"
    /\ ~rng_last.entropy_ok
    /\ rng_last.status = "Err"
    /\ rng = None

\* C10: fill_bytes(dst) calls block() ceil(len/256) times, floor(len/256)
\* of them straight into dst and one more into a scratch buf iff len mod
\* 256 # 0, and the stored counter advances by 4 * ceil(len/256) mod 2^64.
C10_FillBytesBlocks ==
    rng_last.op = "fill_bytes" =>
        /\ rng_last.blocks = (rng_last.len + 255) \div 256
        /\ rng_last.scratch = (IF rng_last.len % 256 # 0 THEN 1 ELSE 0)
        /\ rng_last.blocks - rng_last.scratch = rng_last.len \div 256
        /\ Len(rng_last.dst) = rng_last.len
        /\ Counter(Unwrap(rng).internal) =
               AddSmall(Counter(rng_last.before.internal),
                        4 * ((rng_last.len + 255) \div 256))

\* A 257-byte dst took one direct block and one scratch block.
C10_Witness ==
    /\ rng_last.op = "fill_bytes"
    /\ rng_last.len = 257
    /\ rng_last.blocks = 2
    /\ rng_last.scratch = 1

(***************************************************************************)
(* Claims about the numeric layer, checked under SpecNum.                  *)
(***************************************************************************)
\* C6: for every max > 0 and every sequence of source words, bound(max)
\* returns a value strictly less than max; bound(0) returns 0.
C6_BoundBelowMax ==
    num_last.op = "bound" =>
        /\ num_last.status = "returned"
        /\ IF num_last.args[1] = U64(0)
           THEN num_last.result = U64(0)
           ELSE LtLimbs(num_last.result, num_last.args[1])

\* bound(3) has rejected the word 0, drawn 2^64 - 1 and returned 2.
C6_Witness ==
    /\ num_last.op = "bound"
    /\ num_last.args = <<U64(3)>>
    /\ num_last.words = <<U64(0), U64_MAX>>
    /\ num_last.status = "returned"
    /\ num_last.result = U64(2)

\* C7: bits(n) returns a value strictly less than 2^n for every n in
\* [0, 64] and every source word, so bits(0) is always 0, and every n
\* above 64 behaves as n = 64.
C7_BitsBelowPow2 ==
    num_last.op = "bits" =>
        /\ num_last.status = "returned"
        /\ num_last.args[1] < U64_BITS =>
               LtLimbs(num_last.result, Pow2(num_last.args[1]))
        /\ num_last.args[1] = 0 => num_last.result = U64(0)
        /\ num_last.args[1] > U64_BITS =>
               num_last.result = bits(num_last.words[1], U64_BITS, build).result

\* C9: every numeric-layer operation returns a value without panic for
\* every argument value, bits(0), bound(0), bound_inclusive(u64::MAX),
\* range_inclusive(min, i64::MAX), range with max - min >= 2^63 and range
\* with min > max included.
C9_NumericOpsReturn ==
    num_last.op # "none" => num_last.status = "returned"

\* A release build's bits(0) has returned its source word 2^64 - 1 whole.
C7_Witness ==
    /\ build = "release"
    /\ num_last.op = "bits"
    /\ num_last.args = <<0>>
    /\ num_last.words = <<U64_MAX>>
    /\ num_last.status = "returned"
    /\ num_last.result = U64_MAX

\* A debug build's range_inclusive(0, i64::MAX) has panicked on max + 1.
C9_Witness ==
    /\ build = "debug"
    /\ num_last.op = "range_inclusive"
    /\ num_last.args = <<U64(0), I64_MAX>>
    /\ num_last.status = "panic"

\* C13: for all i64 min < max, range(min, max) returns a value v with
\* min <= v < max, ranges wider than i64::MAX included.
C13_RangeWithin ==
    (num_last.op = "range" /\ LtI64(num_last.args[1], num_last.args[2])) =>
        /\ num_last.status = "returned"
        /\ ~LtI64(num_last.result, num_last.args[1])
        /\ LtI64(num_last.result, num_last.args[2])

\* A debug build's range(i64::MIN, i64::MAX) has drawn 2^64 - 1 and
\* panicked on the addition of min.
C13_Witness ==
    /\ build = "debug"
    /\ num_last.op = "range"
    /\ num_last.args = <<I64_MIN, I64_MAX>>
    /\ num_last.words = <<U64_MAX>>
    /\ num_last.status = "panic"

\* C14: bound_inclusive(max) returns v with 0 <= v <= max for every
\* max < u64::MAX, and range_inclusive(min, max) returns v with
\* min <= v <= max for every min <= max < i64::MAX; with min = max the
\* result is min.
C14_InclusiveWithin ==
    /\ (num_last.op = "bound_inclusive" /\ num_last.args[1] # U64_MAX) =>
          /\ num_last.status = "returned"
          /\ ~LtLimbs(num_last.args[1], num_last.result)
    /\ (/\ num_last.op = "range_inclusive"
        /\ ~LtI64(num_last.args[2], num_last.args[1])
        /\ num_last.args[2] # I64_MAX) =>
          /\ num_last.status = "returned"
          /\ ~LtI64(num_last.result, num_last.args[1])
          /\ ~LtI64(num_last.args[2], num_last.result)

\* A debug build's range_inclusive(i64::MIN, 7) has drawn 2^64 - 1 and
\* panicked on the addition of min.
C14_Witness ==
    /\ build = "debug"
    /\ num_last.op = "range_inclusive"
    /\ num_last.args = <<I64_MIN, U64(7)>>
    /\ num_last.words = <<U64_MAX>>
    /\ num_last.status = "panic"

\* C18: block() changes only the 64-bit counter of the stored state: the
\* eight key words (rows B and C) and the two nonce words of row D are,
\* after any number of block(), u64() and fill_bytes() calls, what they
\* were at construction.
C18_KeyAndNonceKept ==
    rng # None =>
        /\ Unwrap(rng).internal.row_b = Unwrap(rng_seed).row_b
        /\ Unwrap(rng).internal.row_c = Unwrap(rng_seed).row_c
        /\ Row_i64x2(Unwrap(rng).internal.row_d)[2] =
               Row_i64x2(Unwrap(rng_seed).row_d)[2]

\* A generator seeded with the counter 2^64 - 2 has made three block()
\* calls, through try_new, fill_bytes and u64(), and its counter has
\* wrapped.
C18_Witness ==
    /\ rng # None
    /\ n_fill = 1
    /\ n_u64 >= 1
    /\ n_block >= 3
    /\ Counter(Unwrap(rng_seed)) =
           <<LimbBase - 2, LimbBase - 1, LimbBase - 1, LimbBase - 1>>
    /\ Counter(Unwrap(rng).internal)[4] = 0

(***************************************************************************)
(* Claims about Machine::new, checked under SpecChaCha.                    *)
(***************************************************************************)
\* The eight u64 words of the lane that a machine just built from state
\* emits k-th (k = 0 .. 3): rows A, B, C and D, two words a row.
EmittedLane(M, state, k) ==
    SubSeq(Machine_fill_block(M, Machine_new(M, state)), 8 * k + 1, 8 * k + 8)

\* Row A, rows B and C of state, and row D of state with k added to its
\* 64-bit counter.
ConsecutiveLane(state, k) ==
    Row_i64x2(ROW_A) \o Row_i64x2(state.row_b) \o Row_i64x2(state.row_c)
    \o <<AddSmall(Counter(state), k), Row_i64x2(state.row_d)[2]>>

\* C16: in every backend's Machine::new the lane emitted k-th (k = 0 .. 3)
\* holds row D with the stored 64-bit counter replaced by
\* (counter + k) mod 2^64, carrying from the low into the high 32-bit word,
\* and with the stored nonce; rows A, B and C are the same in all lanes.
C16_LanesConsecutive ==
    \A k \in 0 .. (DEPTH - 1) :
        EmittedLane(machine, cc_state, k) = ConsecutiveLane(cc_state, k)

\* The AVX512 machine that block() built from a counter of 2^32 - 1 has
\* given the lane it emits second the counter 0 and not 2^32.
C16_Witness ==
    /\ machine = "avx512"
    /\ cc_blocks = 1
    /\ Counter(cc_prev) = <<LimbBase - 1, LimbBase - 1, 0, 0>>
    /\ EmittedLane(machine, cc_prev, 1)[7] = <<0, 0, 0, 0>>

\* C20: bound(max) redraws a word if and only if the low 64 bits of
\* word * max are below the threshold (2^64 - max) mod max; the threshold
\* is computed only when the first draw's low half is < max, and when the
\* first draw's low half is >= max the result is the high half of that
\* product after exactly one source word.
C20_RedrawBelowThreshold ==
    (num_last.op = "bound" /\ num_last.status = "returned") =>
        IF ~LtLimbs(wide_mul(num_last.words[1], num_last.args[1]).low,
                    num_last.args[1])
        THEN /\ num_last.threshold = None
             /\ Len(num_last.words) = 1
             /\ num_last.result =
                    wide_mul(num_last.words[1], num_last.args[1]).high
        ELSE /\ num_last.threshold =
                    Some(rem64(wrapping_neg(num_last.args[1]), num_last.args[1]))
             /\ \A i \in 1 .. Len(num_last.words) :
                    LtLimbs(wide_mul(num_last.words[i], num_last.args[1]).low,
                            Unwrap(num_last.threshold))
                    <=> i < Len(num_last.words)
             /\ num_last.result =
                    wide_mul(num_last.words[Len(num_last.words)],
                             num_last.args[1]).high

\* bound(2^63 + 1) has drawn 2, whose low half 2 is below the threshold
\* 2^63 - 1, redrawn, and returned the high half of 1 * max.
C20_Witness ==
    /\ num_last.op = "bound"
    /\ num_last.args = <<<<1, 0, 0, LimbBase \div 2>>>>
    /\ num_last.words = <<U64(2), U64(1)>>
    /\ num_last.threshold = Some(<<LimbBase - 1, LimbBase - 1, LimbBase - 1,
                                   (LimbBase \div 2) - 1>>)
    /\ num_last.status = "returned"
    /\ num_last.result = U64(0)

\* i64 -x.
NegI64(x) == wrapping_sub64(U64(0), x)

\* The numerator n of a float generator with mantissa width m is in its
\* interval: [0, 2^m) for the unit, [1, 2^m] for the nonzero and
\* (-2^m, 2^m), as x - 2^m with x in [1, 2^(m+1)), for the wide generator.
NumeratorWithin(kind, n, m) ==
    CASE kind = "unit" -> LtLimbs(n, Pow2(m))
      [] kind = "nonzero" -> n # U64(0) /\ ~LtLimbs(Pow2(m), n)
      [] kind = "wide" ->
            /\ LtI64(NegI64(Pow2(m)), n)
            /\ LtI64(n, Pow2(m))
            /\ wrapping_add64(n, Pow2(m)) # U64(0)
            /\ LtLimbs(wrapping_add64(n, Pow2(m)), Pow2(m + 1))

\* C12: the integer numerators of the float generators stay in their
\* intervals for every source word: f64() is n / 2^53 with n in [0, 2^53),
\* f64_nonzero() is (n + 1) / 2^53 with n + 1 in [1, 2^53], f64_wide() is
\* (x - 2^53) / 2^53 with x in [1, 2^54); the f32 variants the same with
\* 24 in place of 53.
C12_NumeratorsInInterval ==
    /\ num_last.op \in {"f64", "f32", "f64_nonzero", "f32_nonzero",
                        "f64_wide", "f32_wide"} =>
           num_last.status = "returned"
    /\ num_last.op = "f64" => NumeratorWithin("unit", num_last.result, 53)
    /\ num_last.op = "f32" => NumeratorWithin("unit", num_last.result, 24)
    /\ num_last.op = "f64_nonzero" =>
           NumeratorWithin("nonzero", num_last.result, 53)
    /\ num_last.op = "f32_nonzero" =>
           NumeratorWithin("nonzero", num_last.result, 24)
    /\ num_last.op = "f64_wide" => NumeratorWithin("wide", num_last.result, 53)
    /\ num_last.op = "f32_wide" => NumeratorWithin("wide", num_last.result, 24)

\* f64_nonzero() has drawn 2^64 - 1 and has the numerator 2^53, the float
\* 1.0; f64() on that word would have 2^53 - 1.
C12_Witness ==
    /\ num_last.op = "f64_nonzero"
    /\ num_last.words = <<U64_MAX>>
    /\ num_last.status = "returned"
    /\ num_last.result = Pow2(53)

\* The number of positions of seq that hold e.
Occurrences(seq, e) == Cardinality({k \in DOMAIN seq : seq[k] = e})

\* C11: shuffle leaves the slice holding the same multiset of elements, at
\* the same length, and every index it swaps is inside the slice.
C11_ShufflePermutes ==
    num_last.op = "shuffle" =>
        /\ num_last.status = "returned"
        /\ Len(num_last.result) = Len(num_last.args[1])
        /\ \A k \in DOMAIN num_last.args[1] :
              Occurrences(num_last.result, num_last.args[1][k])
                  = Occurrences(num_last.args[1], num_last.args[1][k])
        /\ \A k \in DOMAIN num_last.swaps :
              /\ num_last.swaps[k][1] \in 0..(Len(num_last.args[1]) - 1)
              /\ num_last.swaps[k][2] \in 0..(Len(num_last.args[1]) - 1)

\* A slice of three elements, two of them equal, has been shuffled with
\* two swaps that both moved something, the first after a redraw.
C11_Witness ==
    /\ num_last.op = "shuffle"
    /\ num_last.status = "returned"
    /\ num_last.args = << <<1, 1, 0>> >>
    /\ num_last.swaps = << <<2, 0>>, <<1, 0>> >>
    /\ Len(num_last.words) = 3
    /\ num_last.result = <<1, 0, 1>>

\* C15: choose returns None exactly when the collection has length 0;
\* otherwise it makes exactly one call of bound, with the length, and
\* returns the element at the index that call returned.
C15_ChooseByBound ==
    num_last.op = "choose" =>
        /\ num_last.status = "returned"
        /\ num_last.result = None <=> Len(num_last.args[1]) = 0
        /\ Len(num_last.args[1]) = 0 =>
              num_last.calls = <<>> /\ num_last.words = <<>>
        /\ Len(num_last.args[1]) # 0 =>
              /\ num_last.calls = <<U64(Len(num_last.args[1]))>>
              /\ num_last.words # <<>>
              /\ LtLimbs(num_last.picked, U64(Len(num_last.args[1])))
              /\ num_last.result
                     = Some(num_last.args[1][num_last.picked[1] + 1])

\* choose on three distinct elements has returned the last of them, its
\* call of bound having drawn twice.
C15_Witness ==
    /\ num_last.op = "choose"
    /\ num_last.status = "returned"
    /\ num_last.args = << <<1, 2, 3>> >>
    /\ num_last.words = <<U64(0), U64_MAX>>
    /\ num_last.picked = U64(2)
    /\ num_last.result = Some(3)

(***************************************************************************)
(* SpecSeed: two Xoshiro256pp generators, each constructed from a seed or  *)
(* by Default and then asked for u64() values.                             *)
(***************************************************************************)
\* Most u64() calls made on one seeded generator.
MaxShiroU64 == 3
ShiroSeeds == {U64(0), U64(1), U64_MAX}

InitSeed ==
    /\ machine = "soft"
    /\ NoChaCha
    /\ NoRng
    /\ NoNum
    /\ NoShiro
    /\ NoCensus
    /\ NoResample

\* Xoshiro256pp::new_with_seed(seed)
ShiroNewWithSeed(g) ==
    /\ shiro[g].made = "none"
    /\ \E seed \in ShiroSeeds :
          shiro' = [shiro EXCEPT ![g] =
                       [made |-> "new_with_seed", seed |-> Some(seed),
                        self |-> Some(Xoshiro256pp_new_with_seed(seed)),
                        outs |-> <<>>]]
    /\ UNCHANGED <<machine, cc_vars, rng_vars, num_vars, bias_vars, loop_vars>>

\* Xoshiro256pp::default()
ShiroDefault(g) ==
    /\ shiro[g].made = "none"
    /\ shiro' = [shiro EXCEPT ![g] =
                    [made |-> "default", seed |-> None,
                     self |-> Some(Xoshiro256pp_default(<<>>)),
                     outs |-> <<>>]]
    /\ UNCHANGED <<machine, cc_vars, rng_vars, num_vars, bias_vars, loop_vars>>

\* rng.u64() on a constructed generator
ShiroU64(g) ==
    /\ shiro[g].made # "none"
    /\ Len(shiro[g].outs) < MaxShiroU64
    /\ \E r \in {Xoshiro256pp_u64(Unwrap(shiro[g].self))} :
          shiro' = [shiro EXCEPT ![g].self = Some(r.self),
                                 ![g].outs = Append(@, r.result)]
    /\ UNCHANGED <<machine, cc_vars, rng_vars, num_vars, bias_vars, loop_vars>>

NextSeed ==
    \/ \E g \in Gens : ShiroNewWithSeed(g)
    \/ \E g \in Gens : ShiroDefault(g)
    \/ \E g \in Gens : ShiroU64(g)

SpecSeed == InitSeed /\ [][NextSeed]_vars

\* The seed generator g was constructed from, Default standing for 0.
SeedOf(g) ==
    IF shiro[g].made = "default" THEN U64(0) ELSE Unwrap(shiro[g].seed)

\* a is an initial part of b.
IsPrefix(a, b) == Len(a) <= Len(b) /\ a = SubSeq(b, 1, Len(a))

WordWidth == 5

InitBias ==
    /\ machine = "soft"
    /\ NoChaCha
    /\ NoRng
    /\ NoNum
    /\ NoShiro
    /\ NoResample
    /\ \E max \in 1..(2 ^ WordWidth - 1) :
          census = [max |-> max, next |-> 0,
                    counts |-> [v \in 0..(max - 1) |-> 0], redrawn |-> 0]

\* rng.bound(max) drawing the word census.next
CensusStep ==
    /\ census.next < 2 ^ WordWidth
    /\ \E r \in {bound_first_draw(WordWidth, census.next, census.max)} :
          census' = IF r.redraw
                    THEN [census EXCEPT !.next = @ + 1, !.redrawn = @ + 1]
                    ELSE [census EXCEPT !.next = @ + 1,
                                        !.counts[r.result] = @ + 1]
    /\ UNCHANGED <<machine, cc_vars, rng_vars, num_vars, seed_vars, loop_vars>>

NextBias == CensusStep

SpecBias == InitBias /\ [][NextBias]_vars

\* C19: bound(max) is unbiased: for every max > 0, over all the source
\* words of the reduced width w, the words accepted without a redraw map
\* onto each result v in [0, max) the same number of times,
\* floor(2^w / max).
C19_BoundUnbiased ==
    /\ DOMAIN census.counts = 0..(census.max - 1)
    /\ census.next = 2 ^ WordWidth =>
          \A v \in 0..(census.max - 1) :
              census.counts[v] = (2 ^ WordWidth) \div census.max

\* The census for max = 3 is complete: each of 0, 1 and 2 was returned for
\* 10 of the 32 words, and 2 words asked for a redraw.
C19_Witness ==
    /\ census.max = 3
    /\ census.next = 2 ^ WordWidth
    /\ census.redrawn = (2 ^ WordWidth) % 3
    /\ census.redrawn > 0
    /\ census.counts[2] = (2 ^ WordWidth) \div 3

\* The matrices double_round is compared on: the one block() starts from
\* for the stored state, and that matrix after one and after two double
\* rounds.
RoundInputs(M, state) ==
    {DoubleRounds(M, Machine_new(M, state), n) : n \in 0..2}

\* C21: the vectorized double_round gives, for every lane, the same 16
\* words as the soft double_round (columns, then diagonals) gives on that
\* lane, and unmake_diagonal is the exact inverse of make_diagonal.
C21_DoubleRoundRefinesSoft ==
    machine # "soft" =>
        \A X \in RoundInputs(machine, cc_state) :
            /\ Matrix_lanes(machine, Machine_double_round(machine, X))
                   = soft_double_round(Matrix_lanes(machine, X))
            /\ Machine_unmake_diagonal(machine,
                   Machine_make_diagonal(machine, X)) = X
            /\ Machine_make_diagonal(machine,
                   Machine_unmake_diagonal(machine, X)) = X

\* block() has run on the sse2 backend, and its first double round changed
\* the matrix it was given while make_diagonal moved words of it.
C21_Witness ==
    /\ machine = "sse2"
    /\ cc_blocks = 1
    /\ Machine_double_round(machine, Machine_new(machine, cc_prev))
           # Machine_new(machine, cc_prev)
    /\ Machine_make_diagonal(machine, Machine_new(machine, cc_prev))
           # Machine_new(machine, cc_prev)
    /\ cc_prev.row_b # cc_prev.row_c

\* fill_block / flatten of backend M emits the matrix X as the soft backend
\* lays out the same lanes taken in the order of their counter offsets.
EmitsCanonical(M, X) ==
    Machine_fill_block(M, X)
        = soft_fill_block(MkSeq(DEPTH, LAMBDA k :
              Matrix_lanes(M, X)[LaneOfOffset(M, k - 1)]))

\* C22: the flatten / fill_block step of every backend emits the four
\* lanes in canonical order: output words 8k .. 8k+7 are the 16 words of
\* the lane with counter offset k, in row order A, B, C, D, as the soft
\* backend lays them out.
C22_FillBlockCanonical ==
    /\ \A X \in RoundInputs(machine, cc_state) : EmitsCanonical(machine, X)
    /\ EmitsCanonical("sse", Machine_new("sse", cc_state))

\* The backends mod.rs selects emit in canonical order.
C22_SelectedBackendsCanonical ==
    \A X \in RoundInputs(machine, cc_state) : EmitsCanonical(machine, X)

\* After a block() call on a state whose key words differ, SSE::flatten of
\* the matrix SSE::new makes starts with word 0 of row A twice, where the
\* soft backend has words 0 and 1 of row A.
C22_Witness ==
    /\ cc_blocks = 1
    /\ cc_state.row_b[1] # cc_state.row_b[2]
    /\ Machine_fill_block("sse", Machine_new("sse", cc_state))[1]
           = ROW_A[1] \o ROW_A[1]
    /\ Machine_fill_block("soft", Machine_new("soft", cc_state))[1]
           = ROW_A[1] \o ROW_A[2]

\* The 16 words of the ChaCha state with k added to its 64-bit counter.
LaneState(state, k) ==
    Flatten(<<ROW_A, state.row_b, state.row_c,
              RowAddCounter64(state.row_d, k)>>)

\* The 8 output words of that state: CHACHA_DOUBLE_ROUNDS double rounds of
\* the soft backend on the one lane, and the lane's pre-round words added.
LaneBlock(state, k) ==
    soft_fill_block(soft_add(
        DoubleRounds("soft", <<LaneState(state, k)>>, CHACHA_DOUBLE_ROUNDS),
        <<LaneState(state, k)>>))

\* C23: block() computes its output from the counter held before the
\* call: lane k of the output is the result of exactly 4 double rounds on
\* the state with counter c + k, followed by the word-wise addition mod
\* 2^32 of that lane's pre-round state; the + 4 of the stored counter
\* affects only the next call.
C23_BlockFromOldCounter ==
    cc_blocks >= 1 =>
        /\ \A k \in 0..(DEPTH - 1) :
              SubSeq(cc_data, 8 * k + 1, 8 * k + 8) = LaneBlock(cc_prev, k)
        /\ Counter(cc_state) = AddSmall(Counter(cc_prev), DEPTH)

\* The same for the backends whose new gives the lanes the counters c + k.
C23_CarryingBackends ==
    (cc_blocks >= 1 /\ machine \in {"soft", "sse2", "avx2"}) =>
        /\ \A k \in 0..(DEPTH - 1) :
              SubSeq(cc_data, 8 * k + 1, 8 * k + 8) = LaneBlock(cc_prev, k)
        /\ Counter(cc_state) = AddSmall(Counter(cc_prev), DEPTH)

\* block() on the NEON backend has emitted lane 0 from the counter it held
\* before the call, c, but lane 1 is not the block of counter c + 1.
C23_Witness ==
    /\ machine = "neon"
    /\ cc_blocks = 1
    /\ SubSeq(cc_data, 1, 8) = LaneBlock(cc_prev, 0)
    /\ SubSeq(cc_data, 9, 16) # LaneBlock(cc_prev, 1)
    /\ Counter(cc_state) = AddSmall(Counter(cc_prev), DEPTH)

\* The sequences of swaps <<i, j>> with i running from top down to 1 and
\* j in [0, i].
RECURSIVE DrawSequences(_)
DrawSequences(top) ==
    IF top < 1 THEN {<<>>}
    ELSE {<< <<top, j>> >> \o d : j \in 0..top, d \in DrawSequences(top - 1)}

\* slice after the swaps, the first of them first.
RECURSIVE SwapsApplied(_, _)
SwapsApplied(slice, swaps) ==
    IF swaps = <<>> THEN slice
    ELSE SwapsApplied(ptr_swap(slice, swaps[1][1], swaps[1][2]), Tail(swaps))

RECURSIVE Factorial(_)
Factorial(n) == IF n <= 1 THEN 1 ELSE n * Factorial(n - 1)

\* The orders of the elements of slice, which are distinct.
OrdersOf(slice) ==
    {MkSeq(Len(slice), LAMBDA k : slice[f[k]]) :
     f \in {g \in [DOMAIN slice -> DOMAIN slice] :
              \A a \in DOMAIN slice : \A b \in DOMAIN slice :
                  g[a] = g[b] => a = b}}

\* C24: shuffle on n distinct elements makes exactly n - 1 bounded draws
\* (none for n <= 1, leaving the slice unchanged), with i running from
\* n - 1 down to 1 and j in [0, i]; the map from the sequence of drawn j
\* to the resulting order is a bijection onto the n! permutations.
C24_ShuffleBijective ==
    (/\ num_last.op = "shuffle"
     /\ \A a \in DOMAIN num_last.args[1] : \A b \in DOMAIN num_last.args[1] :
           num_last.args[1][a] = num_last.args[1][b] => a = b) =>
        /\ num_last.status = "returned"
        /\ num_last.swaps \in DrawSequences(Len(num_last.args[1]) - 1)
        /\ Len(num_last.words) >= Len(num_last.swaps)
        /\ Len(num_last.args[1]) <= 1 =>
              /\ num_last.swaps = <<>>
              /\ num_last.words = <<>>
              /\ num_last.result = num_last.args[1]
        /\ num_last.result = SwapsApplied(num_last.args[1], num_last.swaps)
        /\ Cardinality(DrawSequences(Len(num_last.args[1]) - 1))
               = Factorial(Len(num_last.args[1]))
        /\ {SwapsApplied(num_last.args[1], d) :
                d \in DrawSequences(Len(num_last.args[1]) - 1)}
               = OrdersOf(num_last.args[1])
        /\ Cardinality(OrdersOf(num_last.args[1]))
               = Factorial(Len(num_last.args[1]))

\* Three distinct elements have been shuffled with two draws, one word
\* each, that both fell strictly inside their ranges' ends: j = 1 at
\* i = 2, then j = 0 at i = 1.
C24_Witness ==
    /\ num_last.op = "shuffle"
    /\ num_last.status = "returned"
    /\ num_last.args = << <<1, 2, 3>> >>
    /\ num_last.swaps = << <<2, 1>>, <<1, 0>> >>
    /\ Len(num_last.words) = 2
    /\ num_last.result = <<3, 1, 2>>

\* C25: a successful try_new calls the entropy source exactly once, for
\* 48 bytes, and uses all of them unmodified as rows B, C and D; the new
\* generator's buffer holds the block generated from that seed state, its
\* cursor is 0 and its stored counter is the seed counter + 4 mod 2^64.
C25_TryNewSeedsFromEntropy ==
    (rng_last.op \in {"try_new", "new"} /\ rng_last.status = "Ok") =>
        /\ rng_last.fills = 1
        /\ Len(rng_last.dest) = 48
        /\ rng # None
        /\ n_block = 1
        /\ Row_i8x16(Unwrap(rng).internal.row_b) = SubSeq(rng_last.dest, 1, 16)
        /\ Row_i8x16(Unwrap(rng).internal.row_c) = SubSeq(rng_last.dest, 17, 32)
        /\ SubSeq(Row_i8x16(Unwrap(rng).internal.row_d), 9, 16)
               = SubSeq(rng_last.dest, 41, 48)
        /\ Counter(Unwrap(rng).internal)
               = AddSmall(LimbsOfBytes(SubSeq(rng_last.dest, 33, 40)), 4)
        /\ Unwrap(rng).index = 0
        /\ Unwrap(rng).buf
               = ChaCha_block(machine,
                     [Unwrap(rng).internal EXCEPT !.row_d =
                          Row_from_i8x16(SubSeq(rng_last.dest, 33, 48))]).buf

\* try_new has built a generator from 48 entropy bytes whose counter bytes
\* are 2^64 - 2: the stored counter has wrapped to 2.
C25_Witness ==
    /\ rng_last.op = "try_new"
    /\ rng_last.status = "Ok"
    /\ SubSeq(rng_last.dest, 33, 40) = <<254, 255, 255, 255, 255, 255, 255, 255>>
    /\ Counter(Unwrap(rng).internal) = U64(2)
    /\ Unwrap(rng).index = 0
    /\ Unwrap(rng).buf[1] \in Seq(Limb)

\* C26: in every reachable state of a SecureRng the cursor is in [0, 32];
\* it is in [1, 32] after every u64() call, the buffer is never read at
\* index 32, and each u64() call raises the cursor by exactly 1 unless it
\* refills, in which case the cursor becomes 1.
C26_CursorInRange ==
    /\ rng # None => Unwrap(rng).index \in 0..32
    /\ rng_last.op = "u64" =>
          /\ rng_last.status = "returned"
          /\ Unwrap(rng).index \in 1..32
          /\ rng_last.read \in 0..31
          /\ rng_last.blocks = (IF rng_last.before.index = 32 THEN 1 ELSE 0)
          /\ Unwrap(rng).index =
                 (IF rng_last.blocks = 0 THEN rng_last.before.index + 1 ELSE 1)

\* A u64() call found the cursor at 32, refilled, read index 0 and left the
\* cursor at 1.
C26_Witness ==
    /\ rng_last.op = "u64"
    /\ rng_last.before.index = 32
    /\ rng_last.blocks = 1
    /\ rng_last.read = 0
    /\ Unwrap(rng).index = 1
    /\ Unwrap(rng).buf # rng_last.before.buf

\* The 64-bit counters of the lanes that block() on backend M builds from
\* state: words 12 and 13 of each lane.
LaneCounters(M, state) ==
    {lane[13] \o lane[14] :
     lane \in {Matrix_lanes(M, Machine_new(M, state))[p] : p \in 1..DEPTH}}

\* The core before block call number n of a generator seeded with seed:
\* the counter has had DEPTH added n times.
CoreBefore(seed, n) ==
    [seed EXCEPT !.row_d = RowAddCounter64(seed.row_d, DEPTH * n)]

\* The block calls n .. top of the generator use the counters c0 + 4n ..
\* c0 + 4n + 3, and no two of them use the same counter.
CountersUsedOnce(M, seed, top) ==
    /\ \A n \in 0..top :
          LaneCounters(M, CoreBefore(seed, n))
              = {AddSmall(Counter(seed), 4 * n + k) : k \in 0..(DEPTH - 1)}
    /\ \A n \in 0..top : \A m \in 0..top :
          n # m => LaneCounters(M, CoreBefore(seed, n))
                       \cap LaneCounters(M, CoreBefore(seed, m)) = {}

\* C27: in any interleaving of u64() and fill_bytes() calls on one
\* SecureRng no counter value is consumed by two block() calls: block call
\* number n (the one at construction being 0) uses exactly the counters
\* c0 + 4n .. c0 + 4n + 3 mod 2^64.
C27_CountersUsedOnce ==
    rng # None =>
        /\ Unwrap(rng).internal = CoreBefore(Unwrap(rng_seed), n_block)
        /\ CountersUsedOnce(machine, Unwrap(rng_seed), n_block)

\* The same for the backends whose new gives the lanes the counters c + k.
C27_CarryingBackends ==
    (rng # None /\ machine \in {"soft", "sse2", "avx2"}) =>
        /\ Unwrap(rng).internal = CoreBefore(Unwrap(rng_seed), n_block)
        /\ CountersUsedOnce(machine, Unwrap(rng_seed), n_block)

\* On every backend the stored core is the seed with 4 added to its
\* counter once per block() call.
C27_CoreAdvances ==
    rng # None => Unwrap(rng).internal = CoreBefore(Unwrap(rng_seed), n_block)

\* A generator on the NEON backend has made block() calls through try_new,
\* u64() and fill_bytes(); the four lanes of its first call all used the
\* seed counter c0.
C27_Witness ==
    /\ machine = "neon"
    /\ rng # None
    /\ n_fill = 1
    /\ n_u64 >= 1
    /\ n_block >= 3
    /\ LaneCounters(machine, Unwrap(rng_seed)) = {Counter(Unwrap(rng_seed))}

\* C28: fill_bytes leaves the 32-word output buffer and the cursor
\* unchanged: the u64() calls after a fill_bytes return the same buffered
\* words, in the same order, as they would have without it, and only the
\* stored counter differs.
C28_FillBytesKeepsBuffer ==
    /\ rng_last.op = "fill_bytes" =>
          /\ Unwrap(rng).buf = rng_last.before.buf
          /\ Unwrap(rng).index = rng_last.before.index
          /\ Unwrap(rng).internal
                 = CoreBefore(rng_last.before.internal, rng_last.blocks)
    /\ (rng_last.op = "u64" /\ n_u64 <= 32) =>
          rng_last.result = NthBlock(machine, Unwrap(rng_seed), 0)[n_u64]

\* After two u64() calls and a fill_bytes of 257 bytes, which made two
\* block() calls, the third u64() call has returned word 2 of the block
\* made at construction.
C28_Witness ==
    /\ rng_last.op = "u64"
    /\ n_fill = 1
    /\ n_u64 = 3
    /\ n_block = 3
    /\ rng_last.before.index = 2
    /\ rng_last.result = NthBlock(machine, Unwrap(rng_seed), 0)[3]
    /\ Unwrap(rng).internal = CoreBefore(Unwrap(rng_seed), 3)

\* The bytes, little-endian, of the n blocks that n block() calls produce
\* one after the other on a core in state s.
RECURSIVE BlockBytes(_, _, _)
BlockBytes(M, s, n) ==
    IF n = 0 THEN <<>>
    ELSE CHOOSE bytes \in
             {BufBytes(r.buf) \o BlockBytes(M, r.state, n - 1) :
              r \in {ChaCha_block(M, s)}} : TRUE

\* C29: fill_bytes(dst) writes every byte of dst, for every length: byte i
\* of dst is little-endian byte i mod 256 of the floor(i / 256)-th block
\* generated during the call, so a final remainder of r bytes receives the
\* first r bytes of the scratch block and the rest of that block is
\* discarded.
C29_FillBytesContent ==
    rng_last.op = "fill_bytes" =>
        /\ Len(rng_last.dst) = rng_last.len
        /\ rng_last.dst
               = SubSeq(BlockBytes(machine, rng_last.before.internal,
                                   (rng_last.len + 255) \div 256),
                        1, rng_last.len)
        /\ Unwrap(rng).internal
               = CoreBefore(rng_last.before.internal,
                            (rng_last.len + 255) \div 256)

\* A dst of 257 bytes was filled: its last byte is the first byte of the
\* second block of the call, a block the byte before it does not come
\* from.
C29_Witness ==
    /\ rng_last.op = "fill_bytes"
    /\ rng_last.len = 257
    /\ rng_last.dst[257]
           = BufBytes(NthBlock(machine, rng_last.before.internal, 1))[1]
    /\ rng_last.dst[256]
           = BufBytes(NthBlock(machine, rng_last.before.internal, 0))[256]
    /\ SubSeq(rng_last.dst, 1, 8) # SubSeq(rng_last.dst, 9, 16)

(***************************************************************************)
(* SpecResample: one numeric-layer operation followed draw by draw through *)
(* its resample loops.  resample.pending holds the loops the call has      *)
(* still to leave, the one it is in first; a step is one self.u64() and    *)
(* the loop's test on it.                                                  *)
(***************************************************************************)
\* The words u64() may return: SourceWords and 2^20, whose top 54 bits are
\* not all zero and whose top 25 bits are.
ResampleWords == SourceWords \cup {Pow2(20)}

\* The word w lets a call leave its loop: the test of the wide
\* generators' loop, of bound's match and first loop test when w is the
\* first word bound drew, and of bound's loop on a later word (a loop
\* bound enters only with low < max, so with max != 0).
LoopAccepts(loop, max, BITS, w, first, b) ==
    IF loop = "wide" THEN wide_loop({w}, 1, BITS, <<>>, b) # {}
    ELSE IF first THEN bound({w}, 1, max, b) # {}
    ELSE /\ max # U64(0)
         /\ bound_loop({w}, 0, max, rem64(wrapping_neg(max), max),
                       wide_mul(w, max), <<w>>, b) # {}

\* A loop a call runs, with its test tabulated: the words that let the
\* call leave it as the first word drawn, and as a later word.
Loop(loop, max, BITS, b) ==
    [loop |-> loop, max |-> max, BITS |-> BITS,
     first_ok |-> {w \in ResampleWords :
                      LoopAccepts(loop, max, BITS, w, TRUE, b)},
     later_ok |-> {w \in ResampleWords :
                      LoopAccepts(loop, max, BITS, w, FALSE, b)}]

\* The loop of bound(max), and the loop of f64_wide / f32_wide on
\* bits(BITS).
BoundLoop(max, b) == Loop("bound", max, 0, b)
WideLoop(BITS, b) == Loop("wide", U64(0), BITS, b)

\* shuffle: for i in (1..len).rev() { self.bound_inclusive(i) ... }, each
\* bound_inclusive(i) being bound(i + 1).
shuffle_loops(len, b) ==
    IF len <= 1 THEN <<>>
    ELSE MkSeq(len - 1,
               LAMBDA k : BoundLoop(wrapping_add64(U64(len - k), U64(1)), b))

\* choose: bound(len) when len != 0.
choose_loops(len, b) == IF len # 0 THEN <<BoundLoop(U64(len), b)>> ELSE <<>>

\* range: bound(max.abs_diff(min))
range_loops(min, max, b) == <<BoundLoop(abs_diff(max, min), b)>>

\* The calls followed, each with the loops it runs.
ResampleCalls(b) ==
    {[op |-> "bound", pending |-> <<BoundLoop(max, b)>>] : max \in BoundMaxes}
    \cup {[op |-> "range", pending |-> range_loops(min, max, b)] :
          min \in RangeEnds, max \in RangeEnds}
    \cup {[op |-> "choose", pending |-> choose_loops(len, b)] :
          len \in 0..MaxSliceLen}
    \cup {[op |-> "shuffle", pending |-> shuffle_loops(len, b)] :
          len \in 0..MaxSliceLen}
    \cup {[op |-> "f64_wide", pending |-> <<WideLoop(F64_MANT + 1, b)>>],
          [op |-> "f32_wide", pending |-> <<WideLoop(F32_MANT + 1, b)>>]}

\* The words that let the call leave the loop it is in.
Accepted ==
    IF resample.first THEN Head(resample.pending).first_ok
    ELSE Head(resample.pending).later_ok

\* What resample.last records of a draw.
Drawn(item, w, accepted) ==
    Some([loop |-> item.loop, max |-> item.max, BITS |-> item.BITS,
          word |-> w, accepted |-> accepted])

InitResample ==
    /\ machine = "soft"
    /\ NoChaCha
    /\ NoRng
    /\ build \in Builds
    /\ num_last = [op |-> "none", status |-> "none"]
    /\ NoShiro
    /\ NoCensus
    /\ \E call \in ResampleCalls(build) :
          resample = [op |-> call.op, pending |-> call.pending,
                      first |-> TRUE, last |-> None, redrew |-> FALSE]

\* self.u64() returns a word the loop's test lets through: the call goes
\* on to its next loop, or returns.
DrawAccepted ==
    /\ resample.pending # <<>>
    /\ \E w \in ResampleWords :
          /\ w \in Accepted
          /\ resample' = [resample EXCEPT
                 !.pending = Tail(@), !.first = TRUE,
                 !.last = Drawn(Head(resample.pending), w, TRUE)]
    /\ UNCHANGED <<machine, cc_vars, rng_vars, num_vars, seed_vars, bias_vars>>

\* self.u64() returns a word the loop's test rejects: the loop goes round.
DrawRejected ==
    /\ resample.pending # <<>>
    /\ \E w \in ResampleWords :
          /\ w \notin Accepted
          /\ resample' = [resample EXCEPT
                 !.first = FALSE, !.redrew = TRUE,
                 !.last = Drawn(Head(resample.pending), w, FALSE)]
    /\ UNCHANGED <<machine, cc_vars, rng_vars, num_vars, seed_vars, bias_vars>>

NextResample == DrawAccepted \/ DrawRejected

\* The source does not yield rejected words for ever: a draw that the
\* loop accepts, possible for as long as the loop runs, is made in the end.
SpecResample ==
    InitResample /\ [][NextResample]_vars /\ WF_vars(DrawAccepted)

\* The top n bits of the 64-bit word are not all zero.
TopBitsNonzero(word, n) ==
    \E i \in 1..4 :
        word[i] \div (2 ^ Min(LimbBits, IF U64_BITS - n > LimbBits * (i - 1)
                                        THEN U64_BITS - n - LimbBits * (i - 1)
                                        ELSE 0)) # 0

\* Some word of the source lets the call leave the loop it is in.
SomeWordAccepted ==
    resample.pending # <<>> => Accepted # {}

\* The wide generators' loop accepts a word exactly when the word's top
\* BITS bits are not all zero.
WideAcceptsNonzero ==
    (resample.last # None /\ Unwrap(resample.last).loop = "wide") =>
        (Unwrap(resample.last).accepted
             <=> TopBitsNonzero(Unwrap(resample.last).word,
                                Unwrap(resample.last).BITS))

\* C30: the resample loops terminate: for every max at least one source
\* word is accepted by bound(max), a word whose top 54 / 25 bits are not
\* all zero is accepted by f64_wide / f32_wide, and so, under a source
\* that does not yield rejected words for ever, bound, range, choose,
\* shuffle and the wide float generators eventually return.
C30_ResampleLoopsTerminate ==
    /\ [](SomeWordAccepted /\ WideAcceptsNonzero)
    /\ <>(resample.pending = <<>>)

\* A shuffle of three elements has returned: its first loop, bound(3),
\* rejected a word, and its last, bound(2), accepted one.
C30_Witness ==
    /\ resample.op = "shuffle"
    /\ resample.pending = <<>>
    /\ resample.redrew
    /\ Unwrap(resample.last).max = U64(2)
    /\ Unwrap(resample.last).accepted

=============================================================================
